---- MODULE Spec2Model ----
(***************************************************************************)
(* A model of the secrets package of logreason: the Manager (a map guarded *)
(* by a sync.RWMutex), its loaders and savers, and the AES-GCM helpers.    *)
(*                                                                         *)
(* Strings are sequences of one-character symbols.  Besides the ordinary   *)
(* characters the alphabet holds "q" (the double quote), "xFF" (a byte     *)
(* that is not valid UTF-8) and "uFFFD" (the Unicode replacement rune).    *)
(* Byte strings whose content is opaque (keys, nonces) are records of a    *)
(* length and an identity.                                                 *)
(*                                                                         *)
(* A record lists its fields in the order in which their names first       *)
(* appear in the module, which is the order TLC keeps them in.             *)
(***************************************************************************)
EXTENDS Integers, Sequences, FiniteSets, TLC

VARIABLES
    secrets,   \* Manager.secrets: a function from the names present to values
    writer,    \* Manager.mu: the thread holding the exclusive lock, or 0
    readers,   \* Manager.mu: the threads holding the shared lock
    pc,        \* per thread: the position inside the current call
    op,        \* per thread: the current call and its arguments
    loc,       \* per thread: the local variables of the current call
    ret,       \* per thread: what the last call returned
    snap,      \* per thread: the map at the moment the lock was acquired
    fs,        \* the file system: path -> file
    origin,    \* per path: which save wrote the file as it stands (history)
    env,       \* the process environment, as os.Environ() lists it
    panicked,  \* the process was aborted by a run-time panic
    ncalls,    \* number of calls started so far
    cx         \* the caller's side: the map or the log it keeps, or the
               \* cipher experiment (encrypt, tamper, decrypt)

vars == <<secrets, writer, readers, pc, op, loc, ret, snap, fs, origin, env,
          panicked, ncalls, cx>>

----------------------------------------------------------------------------
(* Bounds *)

NThreads == 2
MaxCalls == 3
MaxNonce == 2

Threads == 1..NThreads

----------------------------------------------------------------------------
(* Maps (Go's map[string]string) *)

EmptyMap == <<>>

\* (an assignment that leaves the assigned name alone in the map)
MapAssignAlone(m, k, v) == [x \in {k} |-> v]

MapAssign(m, k, v) == [x \in (DOMAIN m) \cup {k} |-> IF x = k THEN v ELSE m[x]]

RECURSIVE MergeSeq(_, _)
MergeSeq(m, entries) ==
    IF entries = <<>> THEN m
    ELSE MergeSeq(MapAssign(m, entries[1][1], entries[1][2]), Tail(entries))

\* All orders in which a range loop may visit the entries of a map.
RECURSIVE Orders(_)
Orders(S) ==
    IF S = {} THEN {<<>>}
    ELSE UNION {{<<x>> \o r : r \in Orders(S \ {x})} : x \in S}

RangeOrders(m) == {[i \in 1..Len(o) |-> <<o[i], m[o[i]]>>] : o \in Orders(DOMAIN m)}

----------------------------------------------------------------------------
(* Strings *)

\* The first byte of a character's UTF-8 encoding ("xFF" is the raw byte).
CharByte(c) ==
    CASE c = "q" -> 34
      [] c = "A" -> 65
      [] c = "B" -> 66
      [] c = "a" -> 97
      [] c = "uFFFD" -> 239
      [] c = "xFF" -> 255
      [] OTHER -> 120

RECURSIVE StrLess(_, _)
StrLess(s, t) ==
    IF t = <<>> THEN FALSE
    ELSE IF s = <<>> THEN TRUE
    ELSE IF CharByte(s[1]) # CharByte(t[1]) THEN CharByte(s[1]) < CharByte(t[1])
    ELSE StrLess(Tail(s), Tail(t))

ValidUTF8(s) == \A i \in 1..Len(s) : s[i] # "xFF"

\* The keys of a map in the order sort.Strings gives them.
RECURSIVE SortedKeys(_)
SortedKeys(S) ==
    IF S = {} THEN <<>>
    ELSE LET least == CHOOSE x \in S : \A y \in S \ {x} : StrLess(x, y)
         IN  <<least>> \o SortedKeys(S \ {least})

----------------------------------------------------------------------------
(* encoding/json, as the package uses it.  A JSON text is modelled by its  *)
(* syntax tree; a JSON string by the sequence of its tokens, where a token *)
(* is a raw character or an escape ("esc_q" is the escaped quote,          *)
(* "esc_ufffd" the six-character escape of U+FFFD).                        *)

JNull == [s |-> <<>>, t |-> "null", members |-> <<>>]
JNum == [s |-> <<>>, t |-> "num", members |-> <<>>]
JArr == [s |-> <<>>, t |-> "arr", members |-> <<>>]
JGarbage == [s |-> <<>>, t |-> "garbage", members |-> <<>>]
JStr(toks) == [s |-> toks, t |-> "str", members |-> <<>>]
JObj(ms) == [s |-> <<>>, t |-> "obj", members |-> ms]

\* json.Marshal of a string: a quote is escaped, a byte that is no valid
\* UTF-8 is written as the escape of U+FFFD, every other character stays.
EncodeChar(c) ==
    CASE c = "q" -> "esc_q"
      [] c = "xFF" -> "esc_ufffd"
      [] OTHER -> c

EncodeString(s) == [i \in 1..Len(s) |-> EncodeChar(s[i])]

\* json.Unmarshal of a string token: escapes are undone, an invalid byte is
\* replaced by the replacement rune.
DecodeToken(tk) ==
    CASE tk = "esc_q" -> "q"
      [] tk = "esc_ufffd" -> "uFFFD"
      [] tk = "xFF" -> "uFFFD"
      [] OTHER -> tk

DecodeString(toks) == [i \in 1..Len(toks) |-> DecodeToken(toks[i])]

\* A raw quote inside a string ends the string early: the text is no JSON.
WellFormedString(toks) == \A i \in 1..Len(toks) : toks[i] # "q"

\* json.Marshal / json.MarshalIndent of a map[string]string: an object whose
\* members come in the sorted order of the keys (the indentation is white
\* space and leaves the syntax tree alone).
Marshal(m) ==
    LET ks == SortedKeys(DOMAIN m)
    IN  JObj([i \in 1..Len(ks) |->
                [k |-> EncodeString(ks[i]), v |-> JStr(EncodeString(m[ks[i]]))]])

WellFormed(doc) ==
    /\ doc.t # "garbage"
    /\ doc.t = "str" => WellFormedString(doc.s)
    /\ \A i \in 1..Len(doc.members) :
          /\ WellFormedString(doc.members[i].k)
          /\ doc.members[i].v.t # "garbage"
          /\ WellFormedString(doc.members[i].v.s)

\* The value json.Unmarshal stores under a key of a map[string]string:
\* a string is decoded, null leaves the zero value "".
MemberValue(v) == IF v.t = "str" THEN DecodeString(v.s) ELSE <<>>

\* var m map[string]string; err := json.Unmarshal(data, &m).
\* A text that is no JSON and a value of the wrong type are errors; null
\* is accepted and leaves the map nil; a later duplicate key wins.
UnmarshalMap(doc) ==
    IF ~WellFormed(doc) THEN [m |-> EmptyMap, err |-> TRUE]
    ELSE IF doc.t = "null" THEN [m |-> EmptyMap, err |-> FALSE]
    ELSE IF doc.t # "obj" THEN [m |-> EmptyMap, err |-> TRUE]
    ELSE [m |-> MergeSeq(EmptyMap,
                   [i \in 1..Len(doc.members) |->
                      <<DecodeString(doc.members[i].k),
                        MemberValue(doc.members[i].v)>>]),
          err |-> \E i \in 1..Len(doc.members) :
                     doc.members[i].v.t \notin {"str", "null"}]

----------------------------------------------------------------------------
(* encoding/base64.  A text is either the encoding of some bytes or no     *)
(* base64 at all; the empty text encodes the empty byte string.            *)

Base64Encode(bytes) == [bytes |-> bytes, valid |-> TRUE]
NotBase64 == [bytes |-> <<>>, valid |-> FALSE]

----------------------------------------------------------------------------
(* Keys, nonces and AES-GCM.  A key or nonce is [len, id].  The cipher is  *)
(* modelled as an ideal authenticated cipher: a ciphertext opens only      *)
(* under the key and nonce that sealed it and only if no byte was altered. *)

Bytes(len, id) == [len |-> len, id |-> id]
NoBytes == Bytes(0, 0)

NonceSize == 12
AESKeySizes == {16, 24, 32}

Sealed(k, n, pt) == [k |-> k, n |-> n, pt |-> pt, gcm |-> TRUE, tamper |-> FALSE]
JunkCipher == [k |-> NoBytes, n |-> NoBytes, pt |-> JNull, gcm |-> FALSE, tamper |-> FALSE]
Tamper(c) == [c EXCEPT !.tamper = TRUE]

Ok(v) == [err |-> "", kind |-> "ok", val |-> v]
Err(e) == [err |-> e, kind |-> "err", val |-> JunkCipher]
Panic == [err |-> "incorrect nonce length given to GCM", kind |-> "panic", val |-> JunkCipher]

\* aes.NewCipher: a key of a length other than 16, 24 or 32 is a KeySizeError.
NewCipherOk(key) == key.len \in AESKeySizes

\* cipher.AEAD.Seal panics on a nonce of the wrong length.
GCMSeal(key, nonce, data) ==
    IF nonce.len # NonceSize THEN Panic ELSE Ok(Sealed(key, nonce, data))

\* cipher.AEAD.Open panics on a nonce of the wrong length and fails when the
\* tag does not verify.
GCMOpen(key, nonce, c) ==
    IF nonce.len # NonceSize THEN Panic
    ELSE IF c.gcm /\ ~c.tamper /\ c.k = key /\ c.n = nonce
         THEN [err |-> "", kind |-> "ok", val |-> c.pt]
         ELSE [err |-> "CryptoError", kind |-> "err", val |-> JNull]

encrypt(data, key, nonce) ==
    IF ~NewCipherOk(key) THEN Err("InvalidKeyLength")
    ELSE GCMSeal(key, nonce, data)

\* (a decrypt that opens under the nonce found with the ciphertext instead of
\* the nonce it was given)
decryptIgnoringNonce(ciphertext, key, nonce) ==
    IF ~NewCipherOk(key) THEN [err |-> "InvalidKeyLength", kind |-> "err", val |-> JNull]
    ELSE GCMOpen(key, ciphertext.n, ciphertext)

decrypt(ciphertext, key, nonce) ==
    IF ~NewCipherOk(key) THEN [err |-> "InvalidKeyLength", kind |-> "err", val |-> JNull]
    ELSE GCMOpen(key, nonce, ciphertext)

----------------------------------------------------------------------------
(* package strings *)

SubStr(s, from, to) == [i \in 1..(to - from + 1) |-> s[from + i - 1]]

HasPrefix(s, p) == Len(s) >= Len(p) /\ SubStr(s, 1, Len(p)) = p

TrimPrefix(s, p) == IF HasPrefix(s, p) THEN SubStr(s, Len(p) + 1, Len(s)) ELSE s

RECURSIVE TrimLeft(_)
TrimLeft(s) == IF s # <<>> /\ s[1] = " " THEN TrimLeft(Tail(s)) ELSE s

RECURSIVE TrimRight(_)
TrimRight(s) ==
    IF s # <<>> /\ s[Len(s)] = " " THEN TrimRight(SubStr(s, 1, Len(s) - 1)) ELSE s

TrimSpace(s) == TrimRight(TrimLeft(s))

\* (a split at the last "=" instead of the first)
IndexEqLast(s) ==
    IF \E i \in 1..Len(s) : s[i] = "="
    THEN CHOOSE i \in 1..Len(s) : s[i] = "=" /\ \A j \in (i + 1)..Len(s) : s[j] # "="
    ELSE 0

\* The position of the first "=" of s, or 0.
IndexEq(s) ==
    IF \E i \in 1..Len(s) : s[i] = "="
    THEN CHOOSE i \in 1..Len(s) : s[i] = "=" /\ \A j \in 1..(i - 1) : s[j] # "="
    ELSE 0

\* strings.SplitN(s, "=", 2), for an s that holds a "=".
BeforeEq(s) == SubStr(s, 1, IndexEq(s) - 1)
AfterEq(s) == SubStr(s, IndexEq(s) + 1, Len(s))

----------------------------------------------------------------------------
(* The loop bodies of LoadFromEnv and LoadFromDotEnvFile *)

\* One element of os.Environ() under LoadFromEnv(prefix): the entry it
\* assigns, if any.
EnvEntry(e, prefix) ==
    IF ~HasPrefix(e, prefix) \/ IndexEq(e) = 0
    THEN [skip |-> TRUE, entry |-> <<<<>>, <<>>>>]
    ELSE [skip |-> FALSE, entry |-> <<TrimPrefix(BeforeEq(e), prefix), AfterEq(e)>>]

RECURSIVE EnvEntries(_, _)
EnvEntries(environ, prefix) ==
    IF environ = <<>> THEN <<>>
    ELSE LET r == EnvEntry(environ[1], prefix)
         IN  (IF r.skip THEN <<>> ELSE <<r.entry>>) \o EnvEntries(Tail(environ), prefix)

\* (a lookup that takes a variable with an empty value for an undefined one)
EnvDefinesNonEmpty(environ, key) ==
    \E i \in 1..Len(environ) :
        IndexEq(environ[i]) > 0 /\ BeforeEq(environ[i]) = key /\ AfterEq(environ[i]) # <<>>

\* os.LookupEnv(key)
EnvDefines(environ, key) ==
    \E i \in 1..Len(environ) : IndexEq(environ[i]) > 0 /\ BeforeEq(environ[i]) = key

EnvValue(environ, key) ==
    LET i == CHOOSE i \in 1..Len(environ) :
                 IndexEq(environ[i]) > 0 /\ BeforeEq(environ[i]) = key
    IN  AfterEq(environ[i])

\* (a removal of quotes that does not ask for two characters)
UnquoteAnyLength(value) ==
    IF Len(value) > 0 /\ value[1] \in {"q", "sq"} /\ value[1] = value[Len(value)]
    THEN SubStr(value, 2, Len(value) - 1)
    ELSE value

\* Remove quotes if present ("q" is the double, "sq" the single quote).
Unquote(value) ==
    IF Len(value) > 1 /\ value[1] \in {"q", "sq"} /\ value[1] = value[Len(value)]
    THEN SubStr(value, 2, Len(value) - 1)
    ELSE value

\* One line of a .env file: the entry it assigns, if any.
ParseEnvLine(text) ==
    LET line == TrimSpace(text)
    IN  IF line = <<>> \/ line[1] = "#" \/ IndexEq(line) = 0
        THEN [skip |-> TRUE, entry |-> <<<<>>, <<>>>>]
        ELSE [skip |-> FALSE,
              entry |-> <<TrimSpace(BeforeEq(line)), Unquote(TrimSpace(AfterEq(line)))>>]

----------------------------------------------------------------------------
(* Files.  A file is missing, unreadable (it exists, but the process may   *)
(* neither read nor write it), a JSON text, or a text of lines.  A line of *)
(* a text file that the scanner cannot deliver (a read error at that       *)
(* point, or a line longer than bufio.MaxScanTokenSize) has ok = FALSE.    *)

\* The permission bits os.WriteFile is given: 0600.
FilePerm == 384
\* Permission bits that let group and others read: 0644.
WidePerm == 420

\* A file is its content and its permission bits (`mode`).
Missing == [doc |-> JNull, kind |-> "missing", lines |-> <<>>, mode |-> 0]
Unreadable == [doc |-> JNull, kind |-> "unreadable", lines |-> <<>>, mode |-> 0]
JsonFile(doc) == [doc |-> doc, kind |-> "json", lines |-> <<>>, mode |-> FilePerm]
TextFile(lines) == [doc |-> JGarbage, kind |-> "text", lines |-> lines, mode |-> FilePerm]

\* The file f with its permission bits changed.
Chmod(f, mode) == [f EXCEPT !.mode = mode]

\* os.WriteFile(name, data, perm) opens with O_WRONLY|O_CREATE|O_TRUNC: perm
\* is given to a file it creates, a file that exists keeps its bits.
Written(old, new) == IF old.kind = "missing" THEN new ELSE Chmod(new, old.mode)

Line(text) == [text |-> text, ok |-> TRUE]
BadLine == [text |-> <<>>, ok |-> FALSE]

PlainPath == "secrets.json"
EncPath == "secrets.enc.json"
EnvPath == ".env"
Paths == {PlainPath, EncPath, EnvPath}

\* The envelope EncryptedSecrets{Nonce, Secrets}, marshalled.
NonceField == <<"nonce">>
SecretsField == <<"secrets">>

Envelope(nonceText, secretsText) ==
    JObj(<<[k |-> NonceField, v |-> JStr(nonceText)],
           [k |-> SecretsField, v |-> JStr(secretsText)]>>)

\* A string field of the envelope after json.Unmarshal: the last member of
\* that name that is a string, else the zero value `zero`.
StructField(doc, name, zero) ==
    LET hits == {i \in 1..Len(doc.members) :
                    doc.members[i].k = name /\ doc.members[i].v.t = "str"}
    IN  IF hits = {} THEN zero
        ELSE doc.members[CHOOSE i \in hits : \A j \in hits : j <= i].v.s

\* var e EncryptedSecrets; err := json.Unmarshal(data, &e).  Unknown members
\* are ignored, null leaves a field alone, a missing field stays "".
UnmarshalEnvelope(doc) ==
    IF doc.t = "garbage" THEN [secrets |-> NotBase64, err |-> TRUE, nonce |-> NotBase64]
    ELSE IF doc.t = "null"
         THEN [secrets |-> Base64Encode(JunkCipher), err |-> FALSE,
               nonce |-> Base64Encode(NoBytes)]
    ELSE IF doc.t # "obj" THEN [secrets |-> NotBase64, err |-> TRUE, nonce |-> NotBase64]
    ELSE [secrets |-> StructField(doc, SecretsField, Base64Encode(JunkCipher)),
          err |-> \E i \in 1..Len(doc.members) :
                     /\ doc.members[i].k \in {NonceField, SecretsField}
                     /\ doc.members[i].v.t \notin {"str", "null"},
          nonce |-> StructField(doc, NonceField, Base64Encode(NoBytes))]

\* (a LoadEncryptedFromFile that drops the error of decrypt and goes on with
\* the empty plaintext)
DecodeIgnoringDecryptError(doc, encryptionKey) ==
    LET e == UnmarshalEnvelope(doc)
    IN  IF e.err \/ ~e.nonce.valid \/ ~e.secrets.valid
        THEN [m |-> EmptyMap, err |-> "ParseError", kind |-> "err"]
        ELSE LET d == decrypt(e.secrets.bytes, encryptionKey, e.nonce.bytes)
             IN  IF d.kind = "panic" THEN [m |-> EmptyMap, err |-> d.err, kind |-> "panic"]
                 ELSE LET u == UnmarshalMap(d.val)
                      IN  IF u.err THEN [m |-> EmptyMap, err |-> "ParseError", kind |-> "err"]
                          ELSE [m |-> u.m, err |-> "", kind |-> "ok"]

\* LoadEncryptedFromFile from the parse of the envelope to the parse of the
\* decrypted JSON: the map to merge, the error to return, or a panic.
Decode(doc, encryptionKey) ==
    LET e == UnmarshalEnvelope(doc)
    IN  IF e.err \/ ~e.nonce.valid \/ ~e.secrets.valid
        THEN [m |-> EmptyMap, err |-> "ParseError", kind |-> "err"]
        ELSE LET d == decrypt(e.secrets.bytes, encryptionKey, e.nonce.bytes)
             IN  IF d.kind = "panic" THEN [m |-> EmptyMap, err |-> d.err, kind |-> "panic"]
                 ELSE IF d.kind = "err"
                      THEN [m |-> EmptyMap, err |-> d.err, kind |-> "err"]
                 ELSE LET u == UnmarshalMap(d.val)
                      IN  IF u.err THEN [m |-> EmptyMap, err |-> "ParseError", kind |-> "err"]
                          ELSE [m |-> u.m, err |-> "", kind |-> "ok"]

\* (a SaveEncryptedToFile that writes a nonce other than the one it used)
EncryptedFileStaleNonce(m, key, nonce) ==
    LET r == encrypt(Marshal(m), key, nonce)
    IN  IF r.kind # "ok" THEN [err |-> r.err, kind |-> r.kind, file |-> Missing]
        ELSE [err |-> "", kind |-> "ok",
              file |-> JsonFile(Envelope(Base64Encode(Bytes(NonceSize, 0)),
                                         Base64Encode(r.val)))]

\* SaveEncryptedToFile from json.Marshal to the marshalled envelope: the
\* file to write, or the error of encrypt.
EncryptedFile(m, key, nonce) ==
    LET r == encrypt(Marshal(m), key, nonce)
    IN  IF r.kind # "ok" THEN [err |-> r.err, kind |-> r.kind, file |-> Missing]
        ELSE [err |-> "", kind |-> "ok",
              file |-> JsonFile(Envelope(Base64Encode(nonce), Base64Encode(r.val)))]

----------------------------------------------------------------------------
(* Calls, locals and return values *)

NoOrigin == [m |-> EmptyMap, key |-> NoBytes, by |-> "none"]

LocInit == [m |-> EmptyMap,        \* the map as the running assignment read it
            file |-> Missing,      \* the file read, or the file to write
            pending |-> <<>>,      \* entries the loop has still to assign
            done |-> <<>>,         \* entries this call has assigned
            acc |-> EmptyMap,      \* GetAll: result
            scanned |-> 0,         \* LoadFromDotEnvFile: lines consumed
            org |-> NoOrigin]      \* which save wrote the bytes in `file`

OpCall(name, key, value, path, ekey) ==
    [key |-> key, value |-> value, name |-> name, path |-> path, ekey |-> ekey]

NoOp == OpCall("none", <<>>, <<>>, "", NoBytes)

RetNone == [err |-> "", kind |-> "none", value |-> <<>>, found |-> FALSE, all |-> EmptyMap]
RetOk == [RetNone EXCEPT !.kind = "ok"]
RetErr(e) == [RetNone EXCEPT !.kind = "err", !.err = e]
RetFound(b) == [RetNone EXCEPT !.kind = "ok", !.found = b]
RetGet(v, b) == [RetNone EXCEPT !.kind = "ok", !.found = b, !.value = v]
RetAll(m) == [RetNone EXCEPT !.kind = "ok", !.all = m]

WriterOps == {"Set", "LoadFromEnv", "LoadFromEnvVar", "LoadFromFile",
              "LoadFromDotEnvFile", "LoadEncryptedFromFile"}
ReaderOps == {"Get", "GetOrDefault", "GetAll", "SaveToFile", "SaveEncryptedToFile"}
FileLoads == {"LoadFromFile", "LoadFromDotEnvFile", "LoadEncryptedFromFile"}
Saves == {"SaveToFile", "SaveEncryptedToFile"}

\* The first statement of each method after it has taken the lock.
Entry(name) ==
    CASE name = "Set" -> "assign"
      [] name = "LoadFromEnv" -> "environ"
      [] name = "LoadFromEnvVar" -> "lookup"
      [] name \in FileLoads -> "stat"
      [] name \in {"Get", "GetOrDefault"} -> "get"
      [] name = "GetAll" -> "copy"
      [] name \in Saves -> "mkdir"

----------------------------------------------------------------------------
(* sync.RWMutex *)

\* (a Lock() that keeps nobody out)
CanLockNoExclusion == TRUE

\* Lock() goes through when nobody holds the lock in either mode.
CanLock == writer = 0 /\ readers = {}

\* (an RLock() that does not wait for the writer)
CanRLockNoExclusion == TRUE

\* RLock() goes through when nobody holds the lock exclusively.
CanRLock == writer = 0

Running(t, p) == ~panicked /\ pc[t] = p

\* `return r`: the deferred Unlock/RUnlock is the next step of the thread.
Return(t, r) ==
    /\ ret' = [ret EXCEPT ![t] = r]
    /\ pc' = [pc EXCEPT ![t] = "unlock"]

Call(t, o) ==
    /\ Running(t, "idle")
    /\ ncalls < MaxCalls
    /\ ncalls' = ncalls + 1
    /\ op' = [op EXCEPT ![t] = o]
    /\ loc' = [loc EXCEPT ![t] = LocInit]
    /\ ret' = [ret EXCEPT ![t] = RetNone]
    /\ pc' = [pc EXCEPT ![t] = "lock"]
    /\ UNCHANGED <<secrets, writer, readers, snap, fs, origin, env, panicked, cx>>

\* m.mu.Lock()
Lock(t) ==
    /\ Running(t, "lock")
    /\ op[t].name \in WriterOps
    /\ CanLock
    /\ writer' = t
    /\ snap' = [snap EXCEPT ![t] = secrets]
    /\ pc' = [pc EXCEPT ![t] = Entry(op[t].name)]
    /\ UNCHANGED <<secrets, readers, op, loc, ret, fs, origin, env, panicked, ncalls, cx>>

\* (an RLock() that goes through at once)
RLockNoWait(t) ==
    /\ Running(t, "lock")
    /\ op[t].name \in ReaderOps
    /\ readers' = readers \cup {t}
    /\ snap' = [snap EXCEPT ![t] = secrets]
    /\ pc' = [pc EXCEPT ![t] = Entry(op[t].name)]
    /\ UNCHANGED <<secrets, writer, op, loc, ret, fs, origin, env, panicked, ncalls, cx>>

\* m.mu.RLock()
RLock(t) ==
    /\ Running(t, "lock")
    /\ op[t].name \in ReaderOps
    /\ CanRLock
    /\ readers' = readers \cup {t}
    /\ snap' = [snap EXCEPT ![t] = secrets]
    /\ pc' = [pc EXCEPT ![t] = Entry(op[t].name)]
    /\ UNCHANGED <<secrets, writer, op, loc, ret, fs, origin, env, panicked, ncalls, cx>>

\* The map m with the entries of f put over it.
Override(m, f) ==
    [x \in (DOMAIN m) \cup (DOMAIN f) |-> IF x \in DOMAIN f THEN f[x] ELSE m[x]]

\* The entries of the lines of a .env file up to the first line the scanner
\* cannot deliver.
RECURSIVE LineEntries(_)
LineEntries(lines) ==
    IF lines = <<>> \/ ~lines[1].ok THEN <<>>
    ELSE LET e == ParseEnvLine(lines[1].text)
         IN  (IF e.skip THEN <<>> ELSE <<e.entry>>) \o LineEntries(Tail(lines))

\* What the call of thread t, run alone on the files and the environment as
\* they stand, merges into the map.
SourceMap(t) ==
    LET o == op[t]
    IN  CASE o.name = "Set" -> MapAssign(EmptyMap, o.key, o.value)
          [] o.name = "LoadFromEnv" -> MergeSeq(EmptyMap, EnvEntries(env, o.key))
          [] o.name = "LoadFromEnvVar" ->
                IF EnvDefines(env, o.key)
                THEN MapAssign(EmptyMap, o.key, EnvValue(env, o.key)) ELSE EmptyMap
          [] o.name = "LoadFromFile" ->
                IF fs[o.path].kind = "json" /\ ~UnmarshalMap(fs[o.path].doc).err
                THEN UnmarshalMap(fs[o.path].doc).m ELSE EmptyMap
          [] o.name = "LoadEncryptedFromFile" ->
                IF fs[o.path].kind = "json" THEN Decode(fs[o.path].doc, o.ekey).m
                ELSE EmptyMap
          [] o.name = "LoadFromDotEnvFile" ->
                MergeSeq(EmptyMap, LineEntries(fs[o.path].lines))
          [] OTHER -> EmptyMap

\* The caller that keeps a log (cx.stage = "log") notes what the calls it gets
\* back were given to write: `last` takes the source of every call that
\* reports success, `all` every entry a call assigned, `clean` says that no
\* call has reported an error.
Log(t) ==
    IF cx.stage = "log"
    THEN [cx EXCEPT !.all = MergeSeq(@, loc[t].done),
                    !.last = IF ret[t].kind = "ok" THEN Override(@, SourceMap(t)) ELSE @,
                    !.clean = @ /\ ret[t].kind = "ok"]
    ELSE cx

\* defer m.mu.Unlock(), and the return to the caller
Unlock(t) ==
    /\ Running(t, "unlock")
    /\ op[t].name \in WriterOps
    /\ writer' = IF writer = t THEN 0 ELSE writer
    /\ pc' = [pc EXCEPT ![t] = "idle"]
    /\ op' = op
    /\ loc' = [loc EXCEPT ![t] = LocInit]
    /\ ret' = [ret EXCEPT ![t] = RetNone]
    /\ snap' = [snap EXCEPT ![t] = EmptyMap]
    /\ cx' = Log(t)
    /\ UNCHANGED <<secrets, readers, fs, origin, env, panicked, ncalls>>

\* (a GetAll that returns the store's own map)
ResultMapAliased == "secrets"

\* The map GetAll returns: `result`, the map it made, not m.secrets.
ResultMap == "result"

\* The map a caller holds: a reference `ref` to a map of its own with the
\* entries `m`, or to the map of the store.  `at` is the store's map when
\* GetAll was called and `own` what the holder has made of it since.
Held(ref, m, at) == [m |-> m, stage |-> "held", ref |-> ref, at |-> at, own |-> at]

\* The caller that waits for a map (cx.stage = "waiting") gets the one GetAll
\* returns; the caller that notes what it reads (cx.stage = "reads") adds what
\* the call has returned to what it has seen.
Deliver(t) ==
    IF cx.stage = "waiting" /\ op[t].name = "GetAll"
    THEN Held(ResultMap, ret[t].all, snap[t])
    ELSE IF cx.stage = "reads"
         THEN [cx EXCEPT !.seen = Append(@, [key |-> op[t].key, name |-> op[t].name,
                                             found |-> ret[t].found, all |-> ret[t].all])]
         ELSE cx

\* defer m.mu.RUnlock(), and the return to the caller
RUnlock(t) ==
    /\ Running(t, "unlock")
    /\ op[t].name \in ReaderOps
    /\ readers' = readers \ {t}
    /\ pc' = [pc EXCEPT ![t] = "idle"]
    /\ op' = op
    /\ loc' = [loc EXCEPT ![t] = LocInit]
    /\ ret' = [ret EXCEPT ![t] = RetNone]
    /\ snap' = [snap EXCEPT ![t] = EmptyMap]
    /\ cx' = Deliver(t)
    /\ UNCHANGED <<secrets, writer, fs, origin, env, panicked, ncalls>>

----------------------------------------------------------------------------
(* m.secrets[key] = value.  A map assignment is not atomic: it reads the   *)
(* map and then writes it, and only the lock keeps other threads out of    *)
(* the gap.                                                                *)

CurEntry(t) ==
    IF op[t].name = "Set" THEN <<op[t].key, op[t].value>> ELSE Head(loc[t].pending)

\* What a call returns once its last assignment is done.
Success(name) == IF name = "LoadFromEnvVar" THEN RetFound(TRUE) ELSE RetOk

\* (an assignment that starts the map anew)
AssignFresh(m, e) == MapAssign(EmptyMap, e[1], e[2])

\* m.secrets[k] = v for the entry e = <<k, v>>
Assign(m, e) == MapAssign(m, e[1], e[2])

MapLoad(t) ==
    /\ Running(t, "assign")
    /\ loc' = [loc EXCEPT ![t].m = secrets]
    /\ pc' = [pc EXCEPT ![t] = "store"]
    /\ UNCHANGED <<secrets, writer, readers, op, ret, snap, fs, origin, env,
                   panicked, ncalls, cx>>

MapStore(t) ==
    LET e == CurEntry(t)
        rest == IF op[t].name = "Set" THEN <<>> ELSE Tail(loc[t].pending)
    IN  /\ Running(t, "store")
        /\ secrets' = Assign(loc[t].m, e)
        /\ loc' = [loc EXCEPT ![t].pending = rest, ![t].done = Append(@, e),
                              ![t].m = EmptyMap]
        /\ IF op[t].name = "LoadFromDotEnvFile"
           THEN pc' = [pc EXCEPT ![t] = "scan"] /\ ret' = ret
           ELSE IF rest # <<>>
                THEN pc' = [pc EXCEPT ![t] = "assign"] /\ ret' = ret
                ELSE Return(t, Success(op[t].name))
        /\ UNCHANGED <<writer, readers, op, snap, fs, origin, env, panicked, ncalls, cx>>

----------------------------------------------------------------------------
(* Get, GetOrDefault, GetAll *)

\* (a GetOrDefault that takes an empty stored value for an absent one)
GetOrDefaultOfNonEmpty(value, exists, defaultValue) ==
    IF exists /\ value # <<>> THEN value ELSE defaultValue

\* if !exists { return defaultValue }; return value
GetOrDefault(value, exists, defaultValue) ==
    IF exists THEN value ELSE defaultValue

\* value, exists := m.secrets[key], in Get; GetOrDefault goes on from what
\* Get returned.
GetRead(t) ==
    LET key == op[t].key
        exists == key \in DOMAIN secrets
        value == IF exists THEN secrets[key] ELSE <<>>
    IN  /\ Running(t, "get")
        /\ IF op[t].name = "Get"
           THEN Return(t, RetGet(value, exists))
           ELSE Return(t, RetGet(GetOrDefault(value, exists, op[t].value), FALSE))
        /\ UNCHANGED <<secrets, writer, readers, op, loc, snap, fs, origin, env,
                       panicked, ncalls, cx>>

\* for k, v := range m.secrets { result[k] = v }
GetAllCopy(t) ==
    /\ Running(t, "copy")
    /\ \E k \in (DOMAIN secrets) \ (DOMAIN loc[t].acc) :
          loc' = [loc EXCEPT ![t].acc = MapAssign(@, k, secrets[k])]
    /\ UNCHANGED <<secrets, writer, readers, pc, op, ret, snap, fs, origin, env,
                   panicked, ncalls, cx>>

GetAllReturn(t) ==
    /\ Running(t, "copy")
    /\ (DOMAIN secrets) \subseteq (DOMAIN loc[t].acc)
    /\ Return(t, RetAll(loc[t].acc))
    /\ UNCHANGED <<secrets, writer, readers, op, loc, snap, fs, origin, env,
                   panicked, ncalls, cx>>

----------------------------------------------------------------------------
(* LoadFromEnv, LoadFromEnvVar *)

\* for _, env := range os.Environ(): the entries the loop will assign
Environ(t) ==
    LET es == EnvEntries(env, op[t].key)
    IN  /\ Running(t, "environ")
        /\ IF es = <<>>
           THEN Return(t, RetOk) /\ loc' = loc
           ELSE /\ loc' = [loc EXCEPT ![t].pending = es]
                /\ pc' = [pc EXCEPT ![t] = "assign"]
                /\ ret' = ret
        /\ UNCHANGED <<secrets, writer, readers, op, snap, fs, origin, env,
                       panicked, ncalls, cx>>

LookupEnv(t) ==
    /\ Running(t, "lookup")
    /\ IF ~EnvDefines(env, op[t].key)
       THEN Return(t, RetFound(FALSE)) /\ loc' = loc
       ELSE /\ loc' = [loc EXCEPT ![t].pending = <<<<op[t].key, EnvValue(env, op[t].key)>>>>]
            /\ pc' = [pc EXCEPT ![t] = "assign"]
            /\ ret' = ret
    /\ UNCHANGED <<secrets, writer, readers, op, snap, fs, origin, env,
                   panicked, ncalls, cx>>

----------------------------------------------------------------------------
(* LoadFromFile, LoadFromDotEnvFile, LoadEncryptedFromFile *)

\* if _, err := os.Stat(filePath); os.IsNotExist(err) { return ... }
Stat(t) ==
    /\ Running(t, "stat")
    /\ IF fs[op[t].path].kind = "missing"
       THEN Return(t, RetErr("NotFound"))
       ELSE /\ pc' = [pc EXCEPT ![t] = IF op[t].name = "LoadFromDotEnvFile"
                                        THEN "open" ELSE "read"]
            /\ ret' = ret
    /\ UNCHANGED <<secrets, writer, readers, op, loc, snap, fs, origin, env,
                   panicked, ncalls, cx>>

\* The loop `for k, v := range parsed` is about to start: an empty map
\* leaves nothing to assign.
StartRange(t, m, f) ==
    \E o \in RangeOrders(m) :
       IF o = <<>>
       THEN /\ Return(t, RetOk)
            /\ loc' = [loc EXCEPT ![t].file = f, ![t].org = origin[op[t].path]]
       ELSE /\ loc' = [loc EXCEPT ![t].file = f, ![t].org = origin[op[t].path],
                                  ![t].pending = o]
            /\ pc' = [pc EXCEPT ![t] = "assign"]
            /\ ret' = ret

\* os.ReadFile and json.Unmarshal of LoadFromFile
ReadPlain(t) ==
    LET f == fs[op[t].path]
        r == UnmarshalMap(f.doc)
    IN  /\ Running(t, "read")
        /\ op[t].name = "LoadFromFile"
        /\ IF f.kind \in {"missing", "unreadable"}
           THEN Return(t, RetErr("IOError")) /\ loc' = loc
           ELSE IF r.err
                THEN Return(t, RetErr("ParseError")) /\ loc' = loc
                ELSE StartRange(t, r.m, f)
        /\ UNCHANGED <<secrets, writer, readers, op, snap, fs, origin, env,
                       panicked, ncalls, cx>>

\* os.ReadFile, the decoding and the decryption of LoadEncryptedFromFile
ReadEncrypted(t) ==
    LET f == fs[op[t].path]
        r == Decode(f.doc, op[t].ekey)
    IN  /\ Running(t, "read")
        /\ op[t].name = "LoadEncryptedFromFile"
        /\ IF f.kind \in {"missing", "unreadable"}
           THEN Return(t, RetErr("IOError")) /\ loc' = loc /\ panicked' = panicked
           ELSE IF r.kind = "panic"
                THEN panicked' = TRUE /\ UNCHANGED <<pc, ret, loc>>
                ELSE IF r.kind = "err"
                     THEN Return(t, RetErr(r.err)) /\ loc' = loc /\ panicked' = panicked
                     ELSE StartRange(t, r.m, f) /\ panicked' = panicked
        /\ UNCHANGED <<secrets, writer, readers, op, snap, fs, origin, env, ncalls, cx>>

\* os.Open of LoadFromDotEnvFile
OpenEnv(t) ==
    LET f == fs[op[t].path]
    IN  /\ Running(t, "open")
        /\ IF f.kind \in {"missing", "unreadable"}
           THEN Return(t, RetErr("IOError")) /\ loc' = loc
           ELSE /\ loc' = [loc EXCEPT ![t].file = f]
                /\ pc' = [pc EXCEPT ![t] = "scan"]
                /\ ret' = ret
        /\ UNCHANGED <<secrets, writer, readers, op, snap, fs, origin, env,
                       panicked, ncalls, cx>>

\* scanner.Scan() and the body of the loop up to the assignment; after the
\* loop, scanner.Err()
Scan(t) ==
    LET i == loc[t].scanned + 1
        lines == loc[t].file.lines
    IN  /\ Running(t, "scan")
        /\ IF i > Len(lines)
           THEN Return(t, RetOk) /\ loc' = loc
           ELSE IF ~lines[i].ok
                THEN Return(t, RetErr("IOError")) /\ loc' = loc
                ELSE LET e == ParseEnvLine(lines[i].text)
                     IN  IF e.skip
                         THEN /\ loc' = [loc EXCEPT ![t].scanned = i]
                              /\ UNCHANGED <<pc, ret>>
                         ELSE /\ loc' = [loc EXCEPT ![t].scanned = i,
                                                    ![t].pending = <<e.entry>>]
                              /\ pc' = [pc EXCEPT ![t] = "assign"]
                              /\ ret' = ret
        /\ UNCHANGED <<secrets, writer, readers, op, snap, fs, origin, env,
                       panicked, ncalls, cx>>

----------------------------------------------------------------------------
(* SaveToFile, SaveEncryptedToFile *)

\* os.MkdirAll(filepath.Dir(filePath), 0755)
MkdirAll(t) ==
    /\ Running(t, "mkdir")
    /\ pc' = [pc EXCEPT ![t] = "marshal"]
    /\ UNCHANGED <<secrets, writer, readers, op, loc, ret, snap, fs, origin, env,
                   panicked, ncalls, cx>>

\* json.MarshalIndent(m.secrets, "", "  ") of SaveToFile
MarshalPlain(t) ==
    /\ Running(t, "marshal")
    /\ op[t].name = "SaveToFile"
    /\ loc' = [loc EXCEPT ![t].file = JsonFile(Marshal(secrets)),
                          ![t].org = [m |-> secrets, key |-> NoBytes, by |-> "SaveToFile"]]
    /\ pc' = [pc EXCEPT ![t] = "write"]
    /\ UNCHANGED <<secrets, writer, readers, op, ret, snap, fs, origin, env,
                   panicked, ncalls, cx>>

Nonces == {Bytes(NonceSize, i) : i \in 1..MaxNonce}

\* json.Marshal(m.secrets), the random nonce, encrypt and the marshalling
\* of the envelope of SaveEncryptedToFile
MarshalEncrypted(t) ==
    /\ Running(t, "marshal")
    /\ op[t].name = "SaveEncryptedToFile"
    /\ \E nonce \in Nonces :
          LET r == EncryptedFile(secrets, op[t].ekey, nonce)
          IN  IF r.kind = "panic"
              THEN panicked' = TRUE /\ UNCHANGED <<pc, ret, loc>>
              ELSE IF r.kind = "err"
                   THEN Return(t, RetErr(r.err)) /\ loc' = loc /\ panicked' = panicked
                   ELSE /\ loc' = [loc EXCEPT
                              ![t].file = r.file,
                              ![t].org = [m |-> secrets, key |-> op[t].ekey,
                                          by |-> "SaveEncryptedToFile"]]
                        /\ pc' = [pc EXCEPT ![t] = "write"]
                        /\ UNCHANGED <<ret, panicked>>
    /\ UNCHANGED <<secrets, writer, readers, op, snap, fs, origin, env, ncalls, cx>>

\* os.WriteFile(filePath, data, 0600)
WriteFile(t) ==
    /\ Running(t, "write")
    /\ IF fs[op[t].path].kind = "unreadable"
       THEN Return(t, RetErr("IOError")) /\ UNCHANGED <<fs, origin>>
       ELSE /\ fs' = [fs EXCEPT ![op[t].path] = Written(fs[op[t].path], loc[t].file)]
            /\ origin' = [origin EXCEPT ![op[t].path] = loc[t].org]
            /\ Return(t, RetOk)
    /\ UNCHANGED <<secrets, writer, readers, op, loc, snap, env, panicked, ncalls, cx>>

\* NewManager(): the caller goes on with a fresh Manager.
NewManager ==
    /\ ~panicked
    /\ \A t \in Threads : pc[t] = "idle"
    /\ secrets # EmptyMap
    /\ secrets' = EmptyMap
    /\ UNCHANGED <<writer, readers, pc, op, loc, ret, snap, fs, origin, env,
                   panicked, ncalls, cx>>

----------------------------------------------------------------------------
(* Spec: threads share one Manager and call any of its methods.            *)

NameA == <<"A">>
NameB == <<"B">>
NameC == <<"C">>
Val1 == <<"1">>
Val2 == <<"2">>
ValDefault == <<"d">>
PrefixP == <<"P">>

Key32 == Bytes(32, 1)

\* PA=2 and B=1
ConcEnv == << <<"P", "A", "=", "2">>, <<"B", "=", "1">> >>

\* A=1
ConcEnvFile == TextFile(<<Line(<<"A", "=", "1">>)>>)

ConcOps ==
    { OpCall("Set", NameA, Val1, "", NoBytes),
      OpCall("Set", NameB, Val2, "", NoBytes),
      OpCall("Get", NameA, <<>>, "", NoBytes),
      OpCall("GetOrDefault", NameB, ValDefault, "", NoBytes),
      OpCall("GetAll", <<>>, <<>>, "", NoBytes),
      OpCall("LoadFromEnv", PrefixP, <<>>, "", NoBytes),
      OpCall("LoadFromEnvVar", NameB, <<>>, "", NoBytes),
      OpCall("LoadFromEnvVar", NameA, <<>>, "", NoBytes),
      OpCall("LoadFromFile", <<>>, <<>>, PlainPath, NoBytes),
      OpCall("LoadFromDotEnvFile", <<>>, <<>>, EnvPath, NoBytes),
      OpCall("LoadEncryptedFromFile", <<>>, <<>>, EncPath, Key32),
      OpCall("SaveToFile", <<>>, <<>>, PlainPath, NoBytes),
      OpCall("SaveEncryptedToFile", <<>>, <<>>, EncPath, Key32) }

CxIdle == [stage |-> "off"]

InitLocals ==
    /\ writer = 0
    /\ readers = {}
    /\ loc = [t \in Threads |-> LocInit]
    /\ ret = [t \in Threads |-> RetNone]
    /\ snap = [t \in Threads |-> EmptyMap]
    /\ panicked = FALSE

InitThreads ==
    /\ InitLocals
    /\ pc = [t \in Threads |-> "idle"]
    /\ op = [t \in Threads |-> NoOp]
    /\ ncalls = 0

Init ==
    /\ InitThreads
    /\ secrets = EmptyMap
    /\ fs = [p \in Paths |-> IF p = EnvPath THEN ConcEnvFile ELSE Missing]
    /\ origin = [p \in Paths |-> NoOrigin]
    /\ env = ConcEnv
    /\ cx = CxIdle

Step(t) ==
    \/ Lock(t) \/ RLock(t) \/ Unlock(t) \/ RUnlock(t)
    \/ MapLoad(t) \/ MapStore(t)
    \/ GetRead(t) \/ GetAllCopy(t) \/ GetAllReturn(t)
    \/ Environ(t) \/ LookupEnv(t)
    \/ Stat(t) \/ ReadPlain(t) \/ ReadEncrypted(t) \/ OpenEnv(t) \/ Scan(t)
    \/ MkdirAll(t) \/ MarshalPlain(t) \/ MarshalEncrypted(t) \/ WriteFile(t)

Next == \E t \in Threads : (\E o \in ConcOps : Call(t, o)) \/ Step(t)

Spec == Init /\ [][Next]_vars

----------------------------------------------------------------------------
(* SpecSet: every thread calls Set once, all at the same time.             *)

SetCalls ==
    {OpCall("Set", n, v, "", NoBytes) : n \in {NameA, NameB, NameC}, v \in {Val1, Val2}}

InitSet ==
    /\ InitLocals
    /\ pc = [t \in Threads |-> "lock"]
    /\ op \in [Threads -> SetCalls]
    /\ ncalls = NThreads
    /\ secrets = EmptyMap
    /\ fs = [p \in Paths |-> Missing]
    /\ origin = [p \in Paths |-> NoOrigin]
    /\ env = <<>>
    /\ cx = CxIdle

NextSet == \E t \in Threads : Lock(t) \/ MapLoad(t) \/ MapStore(t) \/ Unlock(t)

SpecSet == InitSet /\ [][NextSet]_vars

AllReturned == \A t \in Threads : pc[t] = "idle"

DistinctNames == \A t, u \in Threads : t # u => op[t].key # op[u].key

\* C1: when all the concurrent Set calls, made with pairwise distinct names,
\* have returned, the store holds every one of the names with the value its
\* Set wrote.
C1_NoLostUpdate ==
    (AllReturned /\ DistinctNames) =>
        \A t \in Threads :
            op[t].key \in DOMAIN secrets /\ secrets[op[t].key] = op[t].value

C1_Witness ==
    /\ AllReturned /\ DistinctNames
    /\ \A t \in Threads : op[t].name = "Set"
    /\ Cardinality(DOMAIN secrets) = NThreads

----------------------------------------------------------------------------
(* Claims about the lock (checked under Spec)                              *)

InSection(t) == pc[t] \notin {"idle", "lock"}

\* What a reading call, run alone on map m, returns.
ReadResult(o, m) ==
    CASE o.name = "Get" ->
            RetGet(IF o.key \in DOMAIN m THEN m[o.key] ELSE <<>>, o.key \in DOMAIN m)
      [] o.name = "GetOrDefault" ->
            RetGet(IF o.key \in DOMAIN m THEN m[o.key] ELSE o.value, FALSE)
      [] o.name = "GetAll" -> RetAll(m)
      [] OTHER -> RetOk

\* C2: the calls on one Manager are linearizable.  A writing call keeps all
\* other calls out from its Lock to its Unlock, and what it leaves when it
\* returns is the map it found overridden by its source, as if it had run
\* alone; a reading call sees one map from its RLock to its RUnlock, and
\* what it returns (a value, a snapshot, the content it saves) is what it
\* would return run alone on that map.
C2_Linearizable ==
    \A t \in Threads :
        /\ (InSection(t) /\ op[t].name \in WriterOps) =>
              /\ \A u \in Threads \ {t} : ~InSection(u)
              /\ secrets = MergeSeq(snap[t], loc[t].done)
              /\ pc[t] = "unlock" => secrets = Override(snap[t], SourceMap(t))
              /\ (pc[t] = "unlock" /\ op[t].name = "LoadFromEnvVar") =>
                    ret[t] = RetFound(EnvDefines(env, op[t].key))
        /\ (InSection(t) /\ op[t].name \in ReaderOps) =>
              /\ secrets = snap[t]
              /\ (pc[t] = "unlock" /\ op[t].name \notin Saves) =>
                    ret[t] = ReadResult(op[t], snap[t])
              /\ (pc[t] \in {"write", "unlock"} /\ op[t].name \in Saves
                    /\ ret[t].kind # "err") =>
                    /\ loc[t].org.m = snap[t]
                    /\ op[t].name = "SaveToFile" =>
                          loc[t].file = JsonFile(Marshal(snap[t]))
                    /\ op[t].name = "SaveEncryptedToFile" =>
                          UnmarshalEnvelope(loc[t].file.doc).secrets.bytes.pt
                             = Marshal(snap[t])

\* A reading call and a writing call overlap in time, and a writing call is
\* about to return having changed the map.
C2_Witness ==
    \E t, u \in Threads :
        /\ op[t].name = "LoadFromEnv" /\ pc[t] = "unlock" /\ secrets # snap[t]
        /\ op[u].name = "GetAll" /\ pc[u] = "lock"

\* C3: no call holds the lock of the store while it does file-system I/O.
IOSteps == {"stat", "read", "open", "scan", "mkdir", "write"}

C3_NoLockDuringIO ==
    \A t \in Threads : pc[t] \in IOSteps => (writer # t /\ t \notin readers)

----------------------------------------------------------------------------
(* SpecFiles: one caller loads and saves the three kinds of file, with     *)
(* good and bad keys, starting from a store and a disk of every shape the  *)
(* methods distinguish.                                                    *)

FileNames == {<<"a">>, <<"xFF">>}
FileValues == {<<>>, <<"q">>, <<"xFF">>}
FileMaps == UNION {[D -> FileValues] : D \in SUBSET FileNames}

KeyGood == Bytes(32, 1)
KeyOther == Bytes(32, 2)
Key16 == Bytes(16, 1)
Key24 == Bytes(24, 1)
Key20 == Bytes(20, 1)
FileKeys == {KeyGood, KeyOther, Key16, Key24, Key20}

Nonce1 == Bytes(NonceSize, 1)
Nonce2 == Bytes(NonceSize, 2)
ShortNonce == Bytes(8, 1)

\* {"a": "\""}
DocGood == JObj(<<[k |-> <<"a">>, v |-> JStr(<<"esc_q">>)]>>)
\* {"a": "\"", "xFF": 1}: a member that is no string after one that is
DocNumber == JObj(<<[k |-> <<"a">>, v |-> JStr(<<"esc_q">>)],
                    [k |-> <<"xFF">>, v |-> JNum]>>)
\* {"a": null, "a": "", "a": "\""}
DocRepeated == JObj(<<[k |-> <<"a">>, v |-> JNull], [k |-> <<"a">>, v |-> JStr(<<>>)],
                      [k |-> <<"a">>, v |-> JStr(<<"esc_q">>)]>>)

PlainFiles ==
    { Unreadable, JsonFile(JGarbage), JsonFile(JNull), JsonFile(JArr),
      JsonFile(JNum), JsonFile(DocGood), JsonFile(DocNumber), JsonFile(DocRepeated),
      Chmod(JsonFile(DocGood), WidePerm) }

EncryptedFiles ==
    { Unreadable, JsonFile(JGarbage), JsonFile(JNull), JsonFile(JObj(<<>>)),
      JsonFile(JObj(<<[k |-> NonceField, v |-> JNum]>>)),
      JsonFile(Envelope(Base64Encode(ShortNonce), Base64Encode(JunkCipher))),
      JsonFile(Envelope(NotBase64, Base64Encode(JunkCipher))),
      JsonFile(Envelope(Base64Encode(Nonce1), NotBase64)),
      JsonFile(Envelope(Base64Encode(Nonce1), Base64Encode(JunkCipher))),
      JsonFile(Envelope(Base64Encode(Nonce1),
                        Base64Encode(Tamper(Sealed(KeyGood, Nonce1, DocGood))))),
      JsonFile(Envelope(Base64Encode(Nonce2),
                        Base64Encode(Sealed(KeyGood, Nonce1, DocGood)))),
      JsonFile(Envelope(Base64Encode(Nonce1),
                        Base64Encode(Sealed(KeyGood, Nonce1, JGarbage)))),
      JsonFile(Envelope(Base64Encode(Nonce1),
                        Base64Encode(Sealed(KeyGood, Nonce1, DocNumber)))),
      Chmod(JsonFile(Envelope(Base64Encode(Nonce1),
                              Base64Encode(Sealed(KeyGood, Nonce1, DocGood)))),
            WidePerm) }

\* a=<quote> then a line the scanner cannot deliver; xFF=xFF, a comment, a=
EnvFiles ==
    { Unreadable, TextFile(<<>>), TextFile(<<BadLine>>),
      TextFile(<<Line(<<"a", "=", "q">>), BadLine>>),
      TextFile(<<Line(<<"xFF", "=", "xFF">>), Line(<<"#", "a">>), Line(<<"a", "=">>)>>) }

FilesAt(p) ==
    IF p = PlainPath THEN PlainFiles
    ELSE IF p = EncPath THEN EncryptedFiles ELSE EnvFiles

FileOps ==
    { OpCall("LoadFromFile", <<>>, <<>>, PlainPath, NoBytes),
      OpCall("SaveToFile", <<>>, <<>>, PlainPath, NoBytes),
      OpCall("LoadFromDotEnvFile", <<>>, <<>>, EnvPath, NoBytes) }
    \cup {OpCall("LoadEncryptedFromFile", <<>>, <<>>, EncPath, k) : k \in FileKeys}
    \cup {OpCall("SaveEncryptedToFile", <<>>, <<>>, EncPath, k) : k \in FileKeys}

InitFiles ==
    /\ InitThreads
    /\ secrets \in FileMaps
    /\ \E p \in Paths : \E f \in FilesAt(p) \cup {Missing} :
          fs = [q \in Paths |-> IF q = p THEN f ELSE Missing]
    /\ origin = [p \in Paths |-> NoOrigin]
    /\ env = <<>>
    /\ cx = CxIdle

StepFiles(t) ==
    \/ Lock(t) \/ RLock(t) \/ Unlock(t) \/ RUnlock(t)
    \/ MapLoad(t) \/ MapStore(t)
    \/ Stat(t) \/ ReadPlain(t) \/ ReadEncrypted(t) \/ OpenEnv(t) \/ Scan(t)
    \/ MkdirAll(t) \/ MarshalPlain(t) \/ MarshalEncrypted(t) \/ WriteFile(t)

NextFiles ==
    \/ \E o \in FileOps : Call(1, o)
    \/ StepFiles(1)
    \/ NewManager

SpecFiles == InitFiles /\ [][NextFiles]_vars

----------------------------------------------------------------------------
(* Loads, saves and their errors (SpecFiles)                               *)

\* The call of thread t has executed its return statement.
Returned(t, name) == pc[t] = "unlock" /\ op[t].name = name

Failed(t) == ret[t].kind = "err"

\* C4: a LoadFromFile, LoadFromDotEnvFile or LoadEncryptedFromFile that
\* returns an error leaves the map as it found it.
C4_LoadAllOrNothing ==
    \A t \in Threads :
        (pc[t] = "unlock" /\ op[t].name \in FileLoads /\ Failed(t))
            => secrets = snap[t]

\* C5: no operation panics: every call ends by returning to its caller.
C5_NeverPanics == ~panicked

\* C6: SaveEncryptedToFile with a key of a length other than 32 fails with
\* InvalidKeyLength and never has file content to write.
C6_OnlyKeysOf32Bytes ==
    \A t \in Threads :
        (op[t].name = "SaveEncryptedToFile" /\ op[t].ekey.len # 32)
            => /\ pc[t] # "write"
               /\ pc[t] = "unlock" => ret[t] = RetErr("InvalidKeyLength")

\* The file at the path of t's call was written by SaveEncryptedToFile
\* under a key other than the key of t's call.
SavedUnderOtherKey(t) ==
    /\ origin[op[t].path].by = "SaveEncryptedToFile"
    /\ origin[op[t].path].key # op[t].ekey

C9_EncryptedRoundTrip ==
    \A t \in Threads :
        (/\ Returned(t, "LoadEncryptedFromFile")
         /\ snap[t] = EmptyMap
         /\ origin[op[t].path].by = "SaveEncryptedToFile"
         /\ origin[op[t].path].key = op[t].ekey
         /\ op[t].ekey.len = 32)
            => (ret[t] = RetOk /\ secrets = origin[op[t].path].m)

\* C10: SaveToFile(path) of a store holding M, then LoadFromFile(path) on a
\* fresh Manager, succeeds and leaves the fresh Manager holding exactly M.
C10_PlainRoundTrip ==
    \A t \in Threads :
        (/\ Returned(t, "LoadFromFile")
         /\ snap[t] = EmptyMap
         /\ origin[op[t].path].by = "SaveToFile")
            => (ret[t] = RetOk /\ secrets = origin[op[t].path].m)

AllValidUTF8(m) == \A k \in DOMAIN m : ValidUTF8(k) /\ ValidUTF8(m[k])

\* C9, for the mappings that do come back: the encrypted round trip
\* reproduces every mapping whose names and values are valid UTF-8.
C9_EncryptedRoundTripOfValidUTF8 ==
    \A t \in Threads :
        (/\ Returned(t, "LoadEncryptedFromFile")
         /\ snap[t] = EmptyMap
         /\ origin[op[t].path].by = "SaveEncryptedToFile"
         /\ origin[op[t].path].key = op[t].ekey
         /\ AllValidUTF8(origin[op[t].path].m))
            => (ret[t] = RetOk /\ secrets = origin[op[t].path].m)

\* C10, for the mappings that do come back: the plain round trip reproduces
\* every mapping whose names and values are valid UTF-8.
C10_PlainRoundTripOfValidUTF8 ==
    \A t \in Threads :
        (/\ Returned(t, "LoadFromFile")
         /\ snap[t] = EmptyMap
         /\ origin[op[t].path].by = "SaveToFile"
         /\ AllValidUTF8(origin[op[t].path].m))
            => (ret[t] = RetOk /\ secrets = origin[op[t].path].m)

\* C11: after a successful SaveToFile or SaveEncryptedToFile the file at the
\* path has the permission bits 0600, whatever was at the path before.
C11_SavedFileIsOwnerOnly ==
    \A t \in Threads :
        (pc[t] = "unlock" /\ op[t].name \in Saves /\ ret[t] = RetOk)
            => fs[op[t].path].mode = FilePerm

\* A JSON object in which every value is a string.
FlatStringObject(doc) ==
    /\ WellFormed(doc)
    /\ doc.t = "obj"
    /\ \A i \in 1..Len(doc.members) : doc.members[i].v.t = "str"

\* The JSON text null, or an object with a null among its values.
HasNull(doc) ==
    \/ doc.t = "null"
    \/ doc.t = "obj" /\ \E i \in 1..Len(doc.members) : doc.members[i].v.t = "null"

\* C16: LoadFromFile on a file that is not a JSON object of string values
\* fails with ParseError and merges nothing.
C16_NotAStringMapIsParseError ==
    \A t \in Threads :
        (/\ Returned(t, "LoadFromFile")
         /\ fs[op[t].path].kind = "json"
         /\ ~FlatStringObject(fs[op[t].path].doc))
            => (ret[t] = RetErr("ParseError") /\ secrets = snap[t])

\* C16, for the files it holds for: the same for every such file without a
\* null.
C16_NotAStringMapWithoutNull ==
    \A t \in Threads :
        (/\ Returned(t, "LoadFromFile")
         /\ fs[op[t].path].kind = "json"
         /\ ~FlatStringObject(fs[op[t].path].doc)
         /\ ~HasNull(fs[op[t].path].doc))
            => (ret[t] = RetErr("ParseError") /\ secrets = snap[t])

----------------------------------------------------------------------------
(* Nonces (Spec)                                                           *)

\* The nonce and the ciphertext in the envelope of file f.
NonceOf(f) == UnmarshalEnvelope(f.doc).nonce.bytes
CipherOf(f) == UnmarshalEnvelope(f.doc).secrets.bytes

\* Thread t is about to write an envelope over one that SaveEncryptedToFile
\* wrote under the same key for another plaintext.
SecondSave(t) ==
    /\ pc[t] = "write" /\ op[t].name = "SaveEncryptedToFile"
    /\ origin[op[t].path].by = "SaveEncryptedToFile"
    /\ origin[op[t].path].key = op[t].ekey
    /\ CipherOf(fs[op[t].path]).pt # CipherOf(loc[t].file).pt

\* C12 (as stated): two SaveEncryptedToFile calls with the same key that
\* encrypt different plaintexts never use the same nonce.
C12_NonceNeverRepeats ==
    \A t \in Threads :
        SecondSave(t) => NonceOf(loc[t].file) # NonceOf(fs[op[t].path])

\* C12 (amended): every SaveEncryptedToFile call draws a 12-byte nonce of its
\* own, seals the JSON of the map under its key and that nonce, and writes
\* that nonce into the envelope.
C12_NonceOfTheCall ==
    \A t \in Threads :
        (pc[t] = "write" /\ op[t].name = "SaveEncryptedToFile")
            => /\ NonceOf(loc[t].file) \in Nonces
               /\ NonceOf(loc[t].file).len = NonceSize
               /\ CipherOf(loc[t].file) =
                      Sealed(op[t].ekey, NonceOf(loc[t].file), Marshal(secrets))

\* A second save under the same key, of another plaintext, drew another
\* nonce.
C12_Witness ==
    \E t \in Threads :
        SecondSave(t) /\ NonceOf(loc[t].file) # NonceOf(fs[op[t].path])

----------------------------------------------------------------------------
(* The names of the store over time (Spec)                                 *)

\* Thread t takes the step of Get that reads the map.
GetStep(t) == pc[t] = "get" /\ op[t].name = "Get" /\ pc'[t] = "unlock"

\* C27: the names of a store only grow.  No step of any call, failing or
\* not, alone or among those of other threads, takes a name out of the map,
\* and a Get reports found exactly when the map holds the name at the step
\* it reads: once a Get has found a name, every later Get of it finds it.
C27_NamesOnlyGrow ==
    [][/\ (DOMAIN secrets) \subseteq (DOMAIN secrets')
       /\ \A t \in Threads :
             GetStep(t) => (ret'[t].found <=> op[t].key \in DOMAIN secrets)]_vars

\* A Get has found A in a store to which other calls have added A and B.
C27_Witness ==
    \E t \in Threads :
        /\ Returned(t, "Get") /\ ret[t].found /\ op[t].key = NameA
        /\ ncalls = MaxCalls
        /\ DOMAIN secrets = {NameA, NameB}

----------------------------------------------------------------------------
(* SpecAtomic: thread 1 reads a fresh Manager with Get and GetAll and      *)
(* notes what the calls return, while one other thread makes one load of   *)
(* a source with the entries A and B.  There is no other writer.           *)

\* PA=2 and PB=1
AtomicEnv == << <<"P", "A", "=", "2">>, <<"P", "B", "=", "1">> >>

\* A=1, then B=2
AtomicEnvFile == TextFile(<<Line(<<"A", "=", "1">>), Line(<<"B", "=", "2">>)>>)

AtomicMap == MapAssign(MapAssign(EmptyMap, NameA, Val1), NameB, Val2)

AtomicLoads ==
    { OpCall("LoadFromEnv", PrefixP, <<>>, "", NoBytes),
      OpCall("LoadFromFile", <<>>, <<>>, PlainPath, NoBytes),
      OpCall("LoadFromDotEnvFile", <<>>, <<>>, EnvPath, NoBytes),
      OpCall("LoadEncryptedFromFile", <<>>, <<>>, EncPath, Key32) }

AtomicReads ==
    { OpCall("Get", NameA, <<>>, "", NoBytes),
      OpCall("Get", NameB, <<>>, "", NoBytes),
      OpCall("GetAll", <<>>, <<>>, "", NoBytes) }

InitAtomic ==
    /\ InitThreads
    /\ secrets = EmptyMap
    /\ fs = [p \in Paths |->
                IF p = EnvPath THEN AtomicEnvFile
                ELSE IF p = PlainPath THEN JsonFile(Marshal(AtomicMap))
                ELSE EncryptedFile(AtomicMap, Key32, Bytes(NonceSize, 1)).file]
    /\ origin = [p \in Paths |-> NoOrigin]
    /\ env = AtomicEnv
    /\ cx = [stage |-> "reads", seen |-> <<>>]

StepAtomic(t) ==
    \/ Lock(t) \/ RLock(t) \/ Unlock(t) \/ RUnlock(t)
    \/ MapLoad(t) \/ MapStore(t)
    \/ GetRead(t) \/ GetAllCopy(t) \/ GetAllReturn(t)
    \/ Environ(t)
    \/ Stat(t) \/ ReadPlain(t) \/ ReadEncrypted(t) \/ OpenEnv(t) \/ Scan(t)

NextAtomic ==
    \/ \E o \in AtomicReads : Call(1, o)
    \/ \E t \in Threads \ {1}, o \in AtomicLoads :
          /\ \A u \in Threads \ {1} : op[u] = NoOp
          /\ Call(t, o)
    \/ \E t \in Threads : StepAtomic(t)

SpecAtomic == InitAtomic /\ [][NextAtomic]_vars

\* The names of the load's entries that the i-th read of thread 1 has found
\* in the store, and the names it has looked for.
Found(i) ==
    IF cx.seen[i].name = "GetAll" THEN DOMAIN cx.seen[i].all
    ELSE IF cx.seen[i].found THEN {cx.seen[i].key} ELSE {}

Asked(i) ==
    IF cx.seen[i].name = "GetAll" THEN DOMAIN AtomicMap ELSE {cx.seen[i].key}

\* C28: a load is atomic to readers as a whole.  A GetAll, or a pair of Gets
\* with no writer but the load about, that runs while one load is made
\* observes none of the load's entries or all of them, never some of them
\* without the others.
C28_LoadAtomicToReaders ==
    /\ \A i \in 1..Len(cx.seen) : Found(i) \in {{}, Asked(i)}
    /\ \A i, j \in 1..Len(cx.seen) :
          (/\ i < j
           /\ cx.seen[i].name = "Get" /\ cx.seen[j].name = "Get"
           /\ Asked(i) \cup Asked(j) = DOMAIN AtomicMap) =>
              (Found(i) \cup Found(j)) \in {{}, DOMAIN AtomicMap}

\* Every single call of the reader observes none or all of the entries of
\* the load it asks for: a GetAll returns the map as it was before the load
\* took the lock or as it was when the load let go of it.
C28_EachCallSeesLoadWhole ==
    /\ \A i \in 1..Len(cx.seen) :
          /\ Found(i) \in {{}, Asked(i)}
          /\ cx.seen[i].name = "GetAll" => cx.seen[i].all \in {EmptyMap} \cup
                 {MergeSeq(EmptyMap, <<<<NameA, a>>, <<NameB, b>>>>) :
                      a \in {Val1, Val2}, b \in {Val1, Val2}}
    /\ \A t \in Threads :
          (InSection(t) /\ op[t].name \in ReaderOps) =>
              \A u \in Threads \ {t} : ~InSection(u)

----------------------------------------------------------------------------
(* SpecSave: threads save a Manager while others write it with Set and a   *)
(* load of two entries.  json.Marshal ranges over the map entry by entry,  *)
(* and here it does so step by step, so that a write that got in between   *)
(* two entries would show in the file.                                     *)

\* json.Marshal(m.secrets) and json.MarshalIndent(m.secrets, "", "  "): one
\* entry of the map is read.
SaveRange(t) ==
    /\ Running(t, "marshal")
    /\ \E k \in (DOMAIN secrets) \ (DOMAIN loc[t].acc) :
          loc' = [loc EXCEPT ![t].acc = MapAssign(@, k, secrets[k])]
    /\ UNCHANGED <<secrets, writer, readers, pc, op, ret, snap, fs, origin, env,
                   panicked, ncalls, cx>>

\* SaveToFile: the entries read make the JSON to write.
SavePlain(t) ==
    /\ Running(t, "marshal")
    /\ op[t].name = "SaveToFile"
    /\ (DOMAIN secrets) \subseteq (DOMAIN loc[t].acc)
    /\ loc' = [loc EXCEPT ![t].file = JsonFile(Marshal(loc[t].acc)),
                          ![t].org = [m |-> loc[t].acc, key |-> NoBytes,
                                      by |-> "SaveToFile"]]
    /\ pc' = [pc EXCEPT ![t] = "write"]
    /\ UNCHANGED <<secrets, writer, readers, op, ret, snap, fs, origin, env,
                   panicked, ncalls, cx>>

\* SaveEncryptedToFile: the entries read make the JSON that is encrypted
\* under a fresh nonce and put into the envelope to write.
SaveEncrypted(t) ==
    /\ Running(t, "marshal")
    /\ op[t].name = "SaveEncryptedToFile"
    /\ (DOMAIN secrets) \subseteq (DOMAIN loc[t].acc)
    /\ \E nonce \in Nonces :
          LET r == EncryptedFile(loc[t].acc, op[t].ekey, nonce)
          IN  IF r.kind # "ok"
              THEN Return(t, RetErr(r.err)) /\ loc' = loc
              ELSE /\ loc' = [loc EXCEPT
                         ![t].file = r.file,
                         ![t].org = [m |-> loc[t].acc, key |-> op[t].ekey,
                                     by |-> "SaveEncryptedToFile"]]
                   /\ pc' = [pc EXCEPT ![t] = "write"]
                   /\ ret' = ret
    /\ UNCHANGED <<secrets, writer, readers, op, snap, fs, origin, env, panicked,
                   ncalls, cx>>

SaveOps ==
    { OpCall("Set", NameA, Val1, "", NoBytes),
      OpCall("Set", NameB, Val2, "", NoBytes),
      OpCall("LoadFromEnv", PrefixP, <<>>, "", NoBytes),
      OpCall("SaveToFile", <<>>, <<>>, PlainPath, NoBytes),
      OpCall("SaveEncryptedToFile", <<>>, <<>>, EncPath, Key32) }

InitSave ==
    /\ InitThreads
    /\ secrets = EmptyMap
    /\ fs = [p \in Paths |-> Missing]
    /\ origin = [p \in Paths |-> NoOrigin]
    /\ env = AtomicEnv
    /\ cx = CxIdle

StepSave(t) ==
    \/ Lock(t) \/ RLock(t) \/ Unlock(t) \/ RUnlock(t)
    \/ MapLoad(t) \/ MapStore(t)
    \/ Environ(t)
    \/ MkdirAll(t) \/ SaveRange(t) \/ SavePlain(t) \/ SaveEncrypted(t) \/ WriteFile(t)

NextSave == \E t \in Threads : (\E o \in SaveOps : Call(t, o)) \/ StepSave(t)

SpecSave == InitSave /\ [][NextSave]_vars

\* The mapping in the bytes a save has made: the JSON of SaveToFile parsed,
\* the envelope of SaveEncryptedToFile opened with the key and parsed.
Serialized(t) ==
    IF op[t].name = "SaveToFile" THEN UnmarshalMap(loc[t].file.doc).m
    ELSE Decode(loc[t].file.doc, op[t].ekey).m

\* C30: a save writes a consistent snapshot and changes nothing in memory.
\* The mapping in the bytes of a save is the whole mapping of the store as
\* it was at one instant between the call and its return, the instant the
\* save took the lock, whatever Set and load calls other threads make, and
\* the store's mapping is still that one when the save returns.
C30_SaveIsSnapshot ==
    \A t \in Threads :
        (op[t].name \in Saves /\ pc[t] \in {"write", "unlock"} /\ ret[t].kind # "err") =>
            /\ Serialized(t) = snap[t]
            /\ secrets = snap[t]

\* A save has succeeded with the two entries a load had put into the store,
\* while a Set that would change one of them waits for the lock.
C30_Witness ==
    \E t, u \in Threads :
        /\ op[t].name \in Saves /\ pc[t] = "unlock" /\ ret[t] = RetOk
        /\ Serialized(t) = MapAssign(MapAssign(EmptyMap, NameA, Val2), NameB, Val1)
        /\ op[u].name = "Set" /\ pc[u] = "lock"

----------------------------------------------------------------------------
(* SpecLive: the threads of Spec under a fair scheduler, on a directory    *)
(* where the encrypted file is missing or holds the JSON text {}.  A       *)
(* thread that can take a step takes one in the end: the file system       *)
(* answers, and sync.RWMutex lets a waiting caller in once the lock is     *)
(* free for it.                                                            *)

InitLive ==
    /\ InitThreads
    /\ secrets = EmptyMap
    /\ \E f \in {Missing, JsonFile(JObj(<<>>))} :
          fs = [p \in Paths |-> IF p = EnvPath THEN ConcEnvFile
                                ELSE IF p = EncPath THEN f ELSE Missing]
    /\ origin = [p \in Paths |-> NoOrigin]
    /\ env = ConcEnv
    /\ cx = CxIdle

Fairness == \A t \in Threads : WF_vars(Step(t))

SpecLive == InitLive /\ [][Next]_vars /\ Fairness

\* Thread t holds the lock for writing, for reading, or not at all.
HoldsLock(t) == writer = t
HoldsRLock(t) == t \in readers

LockFree == writer = 0 /\ readers = {}

\* C29: the store is deadlock-free and every call completes.  Every call
\* that has started returns in the end, and the lock is free whenever no
\* call is in progress.
C29_EveryCallReturns ==
    /\ \A t \in Threads : (pc[t] # "idle") ~> (pc[t] = "idle")
    /\ []((\A t \in Threads : pc[t] = "idle") => LockFree)

\* Every call that has started returns in the end unless the process has
\* stopped in a panic, and the lock is free whenever no call is in progress.
C29_ReturnsUnlessPanic ==
    /\ \A t \in Threads : (pc[t] # "idle") ~> (pc[t] = "idle" \/ panicked)
    /\ []((\A t \in Threads : pc[t] = "idle") => LockFree)

\* A call takes the lock once and in one mode, after it has started and
\* before its first statement, and a thread with no call holds nothing.
C29_LockOncePerCall ==
    \A t \in Threads :
        /\ pc[t] \in {"idle", "lock"} => (~HoldsLock(t) /\ ~HoldsRLock(t))
        /\ (InSection(t) /\ op[t].name \in WriterOps) => (HoldsLock(t) /\ ~HoldsRLock(t))
        /\ (InSection(t) /\ op[t].name \in ReaderOps) => (HoldsRLock(t) /\ ~HoldsLock(t))

----------------------------------------------------------------------------
(* SpecCopy: threads call Set, Get, GetAll and a load on one Manager while *)
(* the caller of a GetAll keeps the map it was given and changes it.       *)

MapDelete(m, k) == [x \in (DOMAIN m) \ {k} |-> m[x]]

\* The entries of the map the caller holds.
Deref(h) == IF h.ref = "secrets" THEN secrets ELSE h.m

CopyOps ==
    { OpCall("Set", NameA, Val1, "", NoBytes),
      OpCall("Set", NameB, Val2, "", NoBytes),
      OpCall("Get", NameA, <<>>, "", NoBytes),
      OpCall("GetAll", <<>>, <<>>, "", NoBytes),
      OpCall("LoadFromEnvVar", NameB, <<>>, "", NoBytes) }

InitCopy ==
    /\ InitThreads
    /\ secrets \in {EmptyMap, MapAssign(EmptyMap, NameA, Val2)}
    /\ fs = [p \in Paths |-> Missing]
    /\ origin = [p \in Paths |-> NoOrigin]
    /\ env = ConcEnv
    /\ cx = [m |-> EmptyMap, stage |-> "waiting", ref |-> ResultMap,
             at |-> EmptyMap, own |-> EmptyMap]

\* The caller writes into the map it holds: held[k] = v.
CallerAssign ==
    /\ ~panicked /\ cx.stage = "held"
    /\ \E k \in {NameA, NameB} : \E v \in {Val1, Val2} :
          /\ IF k \in DOMAIN Deref(cx) THEN Deref(cx)[k] # v ELSE TRUE
          /\ IF cx.ref = "secrets"
             THEN /\ secrets' = MapAssign(secrets, k, v)
                  /\ cx' = [cx EXCEPT !.own = MapAssign(@, k, v)]
             ELSE /\ secrets' = secrets
                  /\ cx' = [cx EXCEPT !.m = MapAssign(@, k, v),
                                      !.own = MapAssign(@, k, v)]
    /\ UNCHANGED <<writer, readers, pc, op, loc, ret, snap, fs, origin, env,
                   panicked, ncalls>>

\* The caller deletes from the map it holds: delete(held, k).
CallerDelete ==
    /\ ~panicked /\ cx.stage = "held"
    /\ \E k \in DOMAIN Deref(cx) :
          IF cx.ref = "secrets"
          THEN /\ secrets' = MapDelete(secrets, k)
               /\ cx' = [cx EXCEPT !.own = MapDelete(@, k)]
          ELSE /\ secrets' = secrets
               /\ cx' = [cx EXCEPT !.m = MapDelete(@, k), !.own = MapDelete(@, k)]
    /\ UNCHANGED <<writer, readers, pc, op, loc, ret, snap, fs, origin, env,
                   panicked, ncalls>>

StepCopy(t) ==
    \/ Lock(t) \/ RLock(t) \/ Unlock(t) \/ RUnlock(t)
    \/ MapLoad(t) \/ MapStore(t)
    \/ GetRead(t) \/ GetAllCopy(t) \/ GetAllReturn(t)
    \/ LookupEnv(t)

NextCopy ==
    \/ \E t \in Threads : (\E o \in CopyOps : Call(t, o)) \/ StepCopy(t)
    \/ CallerAssign
    \/ CallerDelete

SpecCopy == InitCopy /\ [][NextCopy]_vars

\* A step in which the caller changes the map it holds.
CallerStep == cx.stage = "held" /\ cx'.stage = "held" /\ cx'.own # cx.own

\* C13: the map GetAll returned holds the store's entries at the time of the
\* call and from then on only what its holder made of them, whatever Set and
\* load calls the store runs; and a change its holder makes to it changes
\* nothing in the store.
C13_GetAllIsACopy ==
    /\ [](cx.stage = "held" => Deref(cx) = cx.own)
    /\ [][CallerStep => secrets' = secrets]_vars

\* The holder has changed its map and the store has changed its own since
\* the GetAll, and the two differ.
C13_Witness ==
    /\ cx.stage = "held"
    /\ cx.at # EmptyMap
    /\ cx.own # cx.at
    /\ secrets # cx.at
    /\ secrets # cx.own

----------------------------------------------------------------------------
(* SpecLoads: one caller fills a fresh Manager with Set and the loads, in  *)
(* any order, and reads it with Get, keeping a log of what was written.    *)

\* PA=2, P=1 and B=1
LoadsEnv == << <<"P", "A", "=", "2">>, <<"P", "=", "1">>, <<"B", "=", "1">> >>

\* A=1, then B=2; and the same with a line the scanner cannot deliver between
LoadsEnvFiles ==
    { TextFile(<<Line(<<"A", "=", "1">>), Line(<<"B", "=", "2">>)>>),
      TextFile(<<Line(<<"A", "=", "1">>), BadLine, Line(<<"B", "=", "2">>)>>) }

\* {"A": "", "C": "1"}
LoadsDoc == JObj(<<[k |-> NameA, v |-> JStr(<<>>)], [k |-> NameC, v |-> JStr(<<"1">>)]>>)

\* {"B": "2"} under Key32
LoadsEnvelope ==
    EncryptedFile(MapAssign(EmptyMap, NameB, Val2), Key32, Bytes(NonceSize, 1)).file

LoadsOps ==
    { OpCall("Set", <<>>, Val1, "", NoBytes),
      OpCall("Set", NameA, Val1, "", NoBytes),
      OpCall("Set", NameA, Val2, "", NoBytes),
      OpCall("Get", NameA, <<>>, "", NoBytes),
      OpCall("Get", NameB, <<>>, "", NoBytes),
      OpCall("GetOrDefault", NameA, Val1, "", NoBytes),
      OpCall("GetOrDefault", NameB, ValDefault, "", NoBytes),
      OpCall("LoadFromEnv", PrefixP, <<>>, "", NoBytes),
      OpCall("LoadFromEnvVar", NameB, <<>>, "", NoBytes),
      OpCall("LoadFromEnvVar", NameC, <<>>, "", NoBytes),
      OpCall("LoadFromFile", <<>>, <<>>, PlainPath, NoBytes),
      OpCall("LoadFromDotEnvFile", <<>>, <<>>, EnvPath, NoBytes),
      OpCall("LoadEncryptedFromFile", <<>>, <<>>, EncPath, Key32),
      OpCall("LoadEncryptedFromFile", <<>>, <<>>, EncPath, KeyOther) }

InitLoads ==
    /\ InitThreads
    /\ secrets = EmptyMap
    /\ \E f \in LoadsEnvFiles :
          fs = [p \in Paths |-> IF p = EnvPath THEN f
                                ELSE IF p = PlainPath THEN JsonFile(LoadsDoc)
                                ELSE LoadsEnvelope]
    /\ origin = [p \in Paths |-> NoOrigin]
    /\ env = LoadsEnv
    /\ cx = [all |-> EmptyMap, stage |-> "log", last |-> EmptyMap, clean |-> TRUE]

StepLoads(t) ==
    \/ Lock(t) \/ RLock(t) \/ Unlock(t) \/ RUnlock(t)
    \/ MapLoad(t) \/ MapStore(t)
    \/ GetRead(t)
    \/ Environ(t) \/ LookupEnv(t)
    \/ Stat(t) \/ ReadPlain(t) \/ ReadEncrypted(t) \/ OpenEnv(t) \/ Scan(t)

NextLoads ==
    \/ \E o \in LoadsOps : Call(1, o)
    \/ StepLoads(1)

SpecLoads == InitLoads /\ [][NextLoads]_vars

\* C14: every name in the map is a non-empty string.
C14_NamesAreNonEmpty == \A k \in DOMAIN secrets : k # <<>>

LoadNames ==
    {"LoadFromEnv", "LoadFromEnvVar", "LoadFromDotEnvFile", "LoadFromFile",
     "LoadEncryptedFromFile"}

\* Thread t's load has returned success.
LoadSucceeded(t) == pc[t] = "unlock" /\ op[t].name \in LoadNames /\ ret[t].kind = "ok"

\* C19: a successful load of a source that yields F into a store that held S
\* leaves every name of F with F's value, every other name of S with S's
\* value, and no other name; and after calls that all succeeded the store
\* holds, for every name, the value of the last call that mentioned it.
C19_LoadsMerge ==
    /\ \A t \in Threads :
          LoadSucceeded(t) =>
              /\ \A k \in DOMAIN SourceMap(t) :
                    k \in DOMAIN secrets /\ secrets[k] = SourceMap(t)[k]
              /\ \A k \in (DOMAIN snap[t]) \ (DOMAIN SourceMap(t)) :
                    k \in DOMAIN secrets /\ secrets[k] = snap[t][k]
              /\ DOMAIN secrets = (DOMAIN snap[t]) \cup (DOMAIN SourceMap(t))
    /\ (cx.clean /\ \A t \in Threads : pc[t] = "idle") => secrets = cx.last

\* A load has put a new value over a name the store held and has left
\* another name of the store alone.
C19_Witness ==
    \E t \in Threads :
        /\ LoadSucceeded(t)
        /\ \E k \in (DOMAIN snap[t]) \cap (DOMAIN SourceMap(t)) :
              snap[t][k] # SourceMap(t)[k] /\ secrets[k] = SourceMap(t)[k]
        /\ \E k \in (DOMAIN snap[t]) \ (DOMAIN SourceMap(t)) : secrets[k] = snap[t][k]

\* What Get of name returns from a store that holds m.
GetOf(m, name) ==
    IF name \in DOMAIN m THEN RetGet(m[name], TRUE) ELSE RetGet(<<>>, FALSE)

\* Set has written its entry and no other; Get has written nothing.
SetAndGetFrame ==
    \A t \in Threads :
        /\ Returned(t, "Set") => secrets = MapAssign(snap[t], op[t].key, op[t].value)
        /\ Returned(t, "Get") => secrets = snap[t]

\* C20: Get(name) returns (v, true) where v is the value of the most recent
\* Set or successful load entry for name, and ("", false) when no Set and no
\* successful load wrote name; Set changes no other name's entry and Get
\* changes nothing.
C20_GetLatestWrite ==
    /\ \A t \in Threads : Returned(t, "Get") => ret[t] = GetOf(cx.last, op[t].key)
    /\ SetAndGetFrame

\* Get(name) returns the value of the most recent entry that any call, be it
\* one that then reported an error, assigned to name.
C20_GetLatestAssignment ==
    /\ \A t \in Threads : Returned(t, "Get") => ret[t] = GetOf(cx.all, op[t].key)
    /\ SetAndGetFrame

\* C21: GetOrDefault(name, d) returns d if and only if name is absent (Get
\* reports found=false); when name is present it returns the stored value,
\* be it the empty string; and it leaves the store as it was.
C21_DefaultIffAbsent ==
    \A t \in Threads :
        Returned(t, "GetOrDefault") =>
            /\ (ret[t].value = op[t].value) <=> (op[t].key \notin DOMAIN secrets)
            /\ op[t].key \in DOMAIN secrets => ret[t].value = secrets[op[t].key]
            /\ secrets = snap[t]

\* GetOrDefault(name, d) returns d when name is absent and the stored value,
\* be it the empty string or equal to d, when name is present; and it leaves
\* the store as it was.
C21_DefaultWhenAbsent ==
    \A t \in Threads :
        Returned(t, "GetOrDefault") =>
            /\ op[t].key \notin DOMAIN secrets => ret[t].value = op[t].value
            /\ op[t].key \in DOMAIN secrets => ret[t].value = secrets[op[t].key]
            /\ secrets = snap[t]

\* GetOrDefault has returned the empty string that the store holds, not the
\* default.
C21_Witness ==
    \E t \in Threads :
        /\ Returned(t, "GetOrDefault")
        /\ op[t].key \in DOMAIN secrets
        /\ secrets[op[t].key] = <<>>
        /\ op[t].value # <<>>
        /\ ret[t].value = <<>>

----------------------------------------------------------------------------
(* SpecRace: one thread loads from the three files while other processes   *)
(* remove and create them.                                                 *)

\* What another process puts at path p.
RaceFile(p) ==
    IF p = PlainPath THEN JsonFile(LoadsDoc)
    ELSE IF p = EncPath THEN LoadsEnvelope
    ELSE ConcEnvFile

RaceOps ==
    { OpCall("LoadFromFile", <<>>, <<>>, PlainPath, NoBytes),
      OpCall("LoadFromDotEnvFile", <<>>, <<>>, EnvPath, NoBytes),
      OpCall("LoadEncryptedFromFile", <<>>, <<>>, EncPath, Key32) }

InitRace ==
    /\ InitThreads
    /\ secrets = EmptyMap
    /\ \E present \in SUBSET Paths :
          fs = [p \in Paths |-> IF p \in present THEN RaceFile(p) ELSE Missing]
    /\ origin = [p \in Paths |-> NoOrigin]
    /\ env = <<>>
    /\ cx = CxIdle

\* Another process removes the file at p.
Remove(p) ==
    /\ fs[p].kind # "missing"
    /\ fs' = [fs EXCEPT ![p] = Missing]
    /\ UNCHANGED <<secrets, writer, readers, pc, op, loc, ret, snap, origin, env,
                   panicked, ncalls, cx>>

\* Another process creates the file at p.
Create(p) ==
    /\ fs[p].kind = "missing"
    /\ fs' = [fs EXCEPT ![p] = RaceFile(p)]
    /\ UNCHANGED <<secrets, writer, readers, pc, op, loc, ret, snap, origin, env,
                   panicked, ncalls, cx>>

StepRace(t) ==
    \/ Lock(t) \/ Unlock(t)
    \/ MapLoad(t) \/ MapStore(t)
    \/ Stat(t) \/ ReadPlain(t) \/ ReadEncrypted(t) \/ OpenEnv(t) \/ Scan(t)

NextRace ==
    \/ \E o \in RaceOps : Call(1, o)
    \/ StepRace(1)
    \/ \E p \in Paths : Remove(p)
    \/ \E p \in Paths : Create(p)

SpecRace == InitRace /\ [][NextRace]_vars

\* Thread t takes a step in which it looks for its file, finds none at the
\* path, and returns.
FailsForNoFile(t) ==
    /\ pc[t] \in {"stat", "read", "open"}
    /\ fs[op[t].path].kind = "missing"
    /\ pc'[t] = "unlock"

\* C22: a LoadFromFile, LoadFromDotEnvFile or LoadEncryptedFromFile that
\* fails because no file exists at the path returns an error of the NotFound
\* kind, never of the IOError kind, whatever other processes do to the file.
C22_NoFileIsNotFound ==
    [][\A t \in Threads : FailsForNoFile(t) => ret'[t] = RetErr("NotFound")]_vars

----------------------------------------------------------------------------
(* key_derivation.go, and SpecDerive: a caller derives a key from a        *)
(* password, and derives it again from the salt it kept, with other        *)
(* derivations and writes to the store in between.                          *)

DefaultIterations == 10000
DefaultSaltLength == 16
DefaultKeyLength == 32

\* The number of salts that crypto/rand can hand out.
MaxSalt == 2
\* The number of other derivations in between.
MaxOthers == 2

\* pbkdf2.Key([]byte(password), salt, iterations, keyLength, sha256.New):
\* keyLength bytes that password, salt and iterations determine.
DeriveKeyFromPassword(password, salt, iterations, keyLength) ==
    Bytes(keyLength, <<password, salt, iterations>>)

\* What GenerateSalt(length) can return: length random bytes, or the error
\* of the random source.
GenerateSalt(length) ==
    {Ok(Bytes(length, i)) : i \in 1..MaxSalt} \cup {Err("RandomError")}

\* (a DeriveKeyWithSalt with an iteration count of its own)
DeriveKeyWithSaltOtherIterations(password, salt) ==
    DeriveKeyFromPassword(password, salt, DefaultIterations + 1, DefaultKeyLength)

DeriveKeyWithSalt(password, salt) ==
    DeriveKeyFromPassword(password, salt, DefaultIterations, DefaultKeyLength)

\* What DeriveKeyWithDefaults(password) returns when GenerateSalt returned r.
DeriveKeyWithDefaults(password, r) ==
    IF r.kind # "ok" THEN [err |-> r.err, key |-> NoBytes, salt |-> NoBytes]
    ELSE [err |-> "",
          key |-> DeriveKeyFromPassword(password, r.val, DefaultIterations,
                                        DefaultKeyLength),
          salt |-> r.val]

Passwords == {<<>>, <<"a">>, <<"b">>}
OtherSalts == {Bytes(DefaultSaltLength, i) : i \in 1..MaxSalt} \cup {NoBytes}

InitDerive ==
    /\ InitThreads
    /\ secrets = EmptyMap
    /\ fs = [p \in Paths |-> Missing]
    /\ origin = [p \in Paths |-> NoOrigin]
    /\ env = <<>>
    /\ cx = [stage |-> "start"]

\* key, salt, err := DeriveKeyWithDefaults(password)
CxDerive ==
    /\ cx.stage = "start"
    /\ \E password \in Passwords : \E r \in GenerateSalt(DefaultSaltLength) :
          LET d == DeriveKeyWithDefaults(password, r)
          IN  cx' = [key |-> d.key,
                     stage |-> IF d.err = "" THEN "derived" ELSE "failed",
                     password |-> password, salt |-> d.salt,
                     other |-> NoBytes, again |-> NoBytes, others |-> 0]
    /\ UNCHANGED <<secrets, writer, readers, pc, op, loc, ret, snap, fs, origin,
                   env, panicked, ncalls>>

\* Some other derivation, of any password and salt.
CxOther ==
    /\ cx.stage \in {"derived", "again"}
    /\ cx.others < MaxOthers
    /\ \E password \in Passwords : \E salt \in OtherSalts :
          cx' = [cx EXCEPT !.other = DeriveKeyWithSalt(password, salt),
                           !.others = @ + 1]
    /\ UNCHANGED <<secrets, writer, readers, pc, op, loc, ret, snap, fs, origin,
                   env, panicked, ncalls>>

\* key2 := DeriveKeyWithSalt(password, salt)
CxAgain ==
    /\ cx.stage \in {"derived", "again"}
    /\ cx' = [cx EXCEPT !.stage = "again",
                        !.again = DeriveKeyWithSalt(cx.password, cx.salt)]
    /\ UNCHANGED <<secrets, writer, readers, pc, op, loc, ret, snap, fs, origin,
                   env, panicked, ncalls>>

NextDerive ==
    \/ CxDerive \/ CxOther \/ CxAgain
    \/ \E o \in SetCalls : Call(1, o)
    \/ Lock(1) \/ MapLoad(1) \/ MapStore(1) \/ Unlock(1)

SpecDerive == InitDerive /\ [][NextDerive]_vars

\* C23: when DeriveKeyWithDefaults(password) has returned (key, salt), the
\* key is of 32 bytes and the salt of 16, and every later
\* DeriveKeyWithSalt(password, salt) returns that key, whatever the store
\* holds and whatever was derived in between.
C23_DerivationIsPure ==
    /\ cx.stage \in {"derived", "again"} =>
          cx.key.len = DefaultKeyLength /\ cx.salt.len = DefaultSaltLength
    /\ cx.stage = "again" => cx.again = cx.key

\* The key has been derived again after another derivation, with another
\* password, and a write to the store.
C23_Witness ==
    /\ cx.stage = "again"
    /\ cx.again = cx.key
    /\ cx.others > 0
    /\ cx.other # NoBytes /\ cx.other # cx.key
    /\ secrets # EmptyMap

----------------------------------------------------------------------------
(* package csvparser.  A CSV text is a sequence of lines, a line a string   *)
(* without its line end.  The alphabet of a line holds, besides the         *)
(* characters, the symbols "1.5" and "2.5", each the decimal text of a      *)
(* number with five decimals, and a quoted field that runs over a line end  *)
(* takes the symbol "nl".  A float64 is one of the two numbers or           *)
(* "1.500004", which "%.5f" writes as "1.5".                                *)

LocationOf(name, city, lat, lon) ==
    [Name |-> name, City |-> city, Latitude |-> lat, Longitude |-> lon]

NoLocation == LocationOf(<<>>, <<>>, "0", "0")

ParseErrorOf(row, column, message) ==
    [Row |-> row, Column |-> column, Message |-> message]

ParseResultOf(locations, errors) ==
    [Success |-> errors = <<>>, Locations |-> locations, Errors |-> errors]

\* strings.Index(s, c) and strings.LastIndex(s, c), counted from 1; 0 for
\* Go's -1.
Index(s, c) ==
    IF \E i \in 1..Len(s) : s[i] = c
    THEN CHOOSE i \in 1..Len(s) : s[i] = c /\ \A j \in 1..(i - 1) : s[j] # c
    ELSE 0

LastIndex(s, c) ==
    IF \E i \in 1..Len(s) : s[i] = c
    THEN CHOOSE i \in 1..Len(s) : s[i] = c /\ \A j \in (i + 1)..Len(s) : s[j] # c
    ELSE 0

\* encoding/csv, Writer: a field is quoted when it holds a comma, a quote or
\* a line end, or starts with a space.
fieldNeedsQuotes(field) ==
    /\ field # <<>>
    /\ \/ \E i \in 1..Len(field) : field[i] \in {",", "q", "nl"}
       \/ field[1] = " "

RECURSIVE DoubleQuotes(_)
DoubleQuotes(field) ==
    IF field = <<>> THEN <<>>
    ELSE (IF field[1] = "q" THEN <<"q", "q">> ELSE <<field[1]>>)
         \o DoubleQuotes(Tail(field))

WriteField(field) ==
    IF fieldNeedsQuotes(field) THEN <<"q">> \o DoubleQuotes(field) \o <<"q">>
    ELSE field

\* Writer.Write(record): the line of the record.
RECURSIVE WriteRecord(_)
WriteRecord(record) ==
    IF Len(record) = 1 THEN WriteField(record[1])
    ELSE WriteField(record[1]) \o <<",">> \o WriteRecord(Tail(record))

\* encoding/csv, Reader.readRecord from the first field of `line` on; `more`
\* are the lines after it, `fields` the fields read so far.  A quoted field
\* runs on into the next line; with no quote to close it, it runs to the
\* end of the text and is an error.
RECURSIVE ReadFields(_, _, _)
RECURSIVE ReadQuoted(_, _, _, _)
ReadFields(line, more, fields) ==
    IF line # <<>> /\ line[1] = "q"
    THEN ReadQuoted(Tail(line), more, fields, <<>>)
    ELSE LET i == Index(line, ",")
             field == IF i = 0 THEN line ELSE SubStr(line, 1, i - 1)
         IN  IF \E j \in 1..Len(field) : field[j] = "q"
             THEN [err |-> "ErrBareQuote", more |-> more, fields |-> <<>>]
             ELSE IF i = 0
                  THEN [err |-> "", more |-> more, fields |-> Append(fields, field)]
                  ELSE ReadFields(SubStr(line, i + 1, Len(line)), more,
                                  Append(fields, field))

ReadQuoted(line, more, fields, field) ==
    LET i == Index(line, "q")
        after == SubStr(line, i + 1, Len(line))
        read == field \o SubStr(line, 1, i - 1)
    IN  IF i = 0
        THEN IF more = <<>>
             THEN [err |-> "ErrQuote", more |-> <<>>, fields |-> <<>>]
             ELSE ReadQuoted(more[1], Tail(more), fields, field \o line \o <<"nl">>)
        ELSE IF after = <<>>
             THEN [err |-> "", more |-> more, fields |-> Append(fields, read)]
             ELSE IF after[1] = "q"
                  THEN ReadQuoted(Tail(after), more, fields, read \o <<"q">>)
                  ELSE IF after[1] = ","
                       THEN ReadFields(Tail(after), more, Append(fields, read))
                       ELSE [err |-> "ErrQuote", more |-> more, fields |-> <<>>]

\* Reader.Read() on the lines not yet read, with Reader.FieldsPerRecord as it
\* stands (0 before the first record): empty lines are skipped, the end of
\* the text is io.EOF, and a record of another number of fields than the
\* first is ErrFieldCount.
RECURSIVE Read(_, _)
Read(lines, fieldsPerRecord) ==
    IF lines = <<>>
    THEN [err |-> "EOF", more |-> <<>>, fields |-> <<>>,
          fieldsPerRecord |-> fieldsPerRecord]
    ELSE IF lines[1] = <<>> THEN Read(Tail(lines), fieldsPerRecord)
    ELSE LET r == ReadFields(lines[1], Tail(lines), <<>>)
         IN  [err |-> IF r.err = "" /\ fieldsPerRecord > 0
                         /\ Len(r.fields) # fieldsPerRecord
                      THEN "ErrFieldCount" ELSE r.err,
              more |-> r.more,
              fields |-> r.fields,
              fieldsPerRecord |-> IF fieldsPerRecord = 0 THEN Len(r.fields)
                                  ELSE fieldsPerRecord]

Numbers == {"1.5", "2.5"}

\* fmt.Sprintf("%.5f", x)
FormatFloat(x) == IF x = "1.500004" THEN <<"1.5">> ELSE <<x>>

\* fmt.Sscanf(strings.TrimSpace(s), "%f", &result): the number the text
\* starts with, whatever follows it.
parseFloat(s) ==
    LET text == TrimSpace(s)
    IN  IF text # <<>> /\ text[1] \in Numbers
        THEN [err |-> "", result |-> text[1]]
        ELSE [err |-> "ScanError", result |-> "0"]

parseNameAndCity(s) ==
    LET text == TrimSpace(s)
        openParen == Index(text, "(")
        closeParen == LastIndex(text, ")")
    IN  IF openParen # 0 /\ closeParen # 0 /\ openParen < closeParen
           /\ closeParen = Len(text)
        THEN [name |-> TrimSpace(SubStr(text, 1, openParen - 1)),
              city |-> TrimSpace(SubStr(text, openParen + 1, closeParen - 1))]
        ELSE [name |-> text, city |-> <<>>]

parseLocation(row, rowNum) ==
    IF Len(row) < 3
    THEN [errors |-> <<ParseErrorOf(rowNum, 0, "row must contain at least 3 columns")>>,
          location |-> NoLocation]
    ELSE LET nc == parseNameAndCity(row[1])
             lat == parseFloat(row[2])
             lon == parseFloat(row[3])
             errors ==
                 (IF lat.err # "" THEN <<ParseErrorOf(rowNum, 1, "invalid latitude")>>
                  ELSE <<>>)
                 \o (IF lon.err # "" THEN <<ParseErrorOf(rowNum, 2, "invalid longitude")>>
                     ELSE <<>>)
         IN  IF errors # <<>> THEN [errors |-> errors, location |-> NoLocation]
             ELSE [errors |-> <<>>,
                   location |-> LocationOf(nc.name, nc.city, lat.result, lon.result)]

\* The lines of a file that was never written, and the state of a parser
\* that has not started.
NoFile == [lines |-> <<>>, exists |-> FALSE]
CsvFile(lines) == [lines |-> lines, exists |-> TRUE]

\* Parse up to its loop: the header is read and validated.  `c` is the state
\* of the caller and of the running Parse, `lines` the text to parse.
ParseHeader(c, lines) ==
    LET h == Read(lines, 0)
    IN  IF h.err # ""
        THEN [c EXCEPT !.stage = "parsed",
                       !.errors = <<ParseErrorOf(0, 0, "failed to read header")>>]
        ELSE IF Len(h.fields) < 3
             THEN [c EXCEPT !.stage = "parsed",
                            !.errors = <<ParseErrorOf(0, 0,
                                           "header must contain at least 3 columns")>>]
             ELSE [c EXCEPT !.stage = "rows", !.more = h.more,
                            !.fieldsPerRecord = h.fieldsPerRecord, !.rowNum = 1]

\* (a loop that does not count a row it could not read)
ParseRowNotCounted(c) ==
    LET r == Read(c.more, c.fieldsPerRecord)
        l == parseLocation(r.fields, c.rowNum)
    IN  IF r.err = "EOF" THEN [c EXCEPT !.stage = "parsed", !.more = <<>>]
        ELSE IF r.err # ""
             THEN [c EXCEPT !.more = r.more,
                            !.errors = Append(@, ParseErrorOf(c.rowNum, 0,
                                                              "failed to read row"))]
             ELSE [c EXCEPT !.more = r.more,
                            !.errors = @ \o l.errors,
                            !.locations = IF l.errors = <<>>
                                          THEN Append(@, l.location) ELSE @,
                            !.rowNum = @ + 1]

\* One turn of the loop of Parse.
ParseRow(c) ==
    LET r == Read(c.more, c.fieldsPerRecord)
        l == parseLocation(r.fields, c.rowNum)
    IN  IF r.err = "EOF" THEN [c EXCEPT !.stage = "parsed", !.more = <<>>]
        ELSE IF r.err # ""
             THEN [c EXCEPT !.more = r.more,
                            !.errors = Append(@, ParseErrorOf(c.rowNum, 0,
                                                              "failed to read row")),
                            !.rowNum = @ + 1]
             ELSE [c EXCEPT !.more = r.more,
                            !.errors = @ \o l.errors,
                            !.locations = IF l.errors = <<>>
                                          THEN Append(@, l.location) ELSE @,
                            !.rowNum = @ + 1]

\* The record UpdateFile writes for a location.
LocationRecord(location) ==
    << IF location.City # <<>> THEN location.Name \o <<" ", "(">> \o location.City \o <<")">>
       ELSE location.Name,
       FormatFloat(location.Latitude),
       FormatFloat(location.Longitude) >>

\* STAZIONAMENTO,LAT,LON
HeaderRecord == << <<"a">>, <<"a">>, <<"a">> >>

\* The lines UpdateFile writes for the locations.
UpdatedLines(locations) ==
    <<WriteRecord(HeaderRecord)>>
    \o [i \in 1..Len(locations) |-> WriteRecord(LocationRecord(locations[i]))]

----------------------------------------------------------------------------
(* SpecCsv: a caller parses a file as it finds it, or writes a list of      *)
(* locations with UpdateFile and parses the file after that.                *)

\* The number of data lines of a text, and of locations in a list.
MaxRows == 3
MaxLocations == 2

CsvHeaders ==
    { <<"a", ",", "a", ",", "a">>,
      <<"a", ",", "a", ",", "a", ",", "a">>,
      <<"a", ",", "a">>,
      <<"a", "q", ",", "a", ",", "a">> }

CsvRows ==
    { <<"a", ",", "1.5", ",", "2.5">>,
      <<"a", " ", "(", "a", ")", ",", "1.5", ",", "2.5">>,
      <<"q", "a", " ", "q", ",", "1.5", "a", ",", " ", "2.5">>,
      <<"a", ",", "a", ",", "2.5">>,
      <<"a", ",", "a", ",", "a">>,
      <<"a", ",", "1.5">>,
      <<"a", ",", "1.5", ",", "2.5", ",", "a">>,
      <<>>,
      <<"a", "q", ",", "1.5", ",", "2.5">>,
      <<"q", "a", ",", "1.5", ",", "2.5">> }

SeqsUpTo(S, n) == UNION {[1..k -> S] : k \in 0..n}

CsvTexts ==
    {<<>>, << <<>> >>}
    \cup UNION {{<<h>> \o rows : rows \in SeqsUpTo(CsvRows, MaxRows)} : h \in CsvHeaders}

CsvNames ==
    { <<>>, <<"a">>, <<" ", "a">>, <<"a", " ">>, <<"(", "a", ")">>, <<"a", "(">>,
      <<"a", ",">>, <<"a", "q">> }
CsvCities == { <<>>, <<"a">>, <<"a", " ">> }
CsvLocations ==
    {LocationOf(n, c, "1.500004", "2.5") : n \in CsvNames, c \in CsvCities}

CsvStart(file, given) ==
    [file |-> file, stage |-> "new", locations |-> <<>>, errors |-> <<>>,
     more |-> <<>>, fieldsPerRecord |-> 0, rowNum |-> 0,
     given |-> given, written |-> FALSE]

InitCsv ==
    /\ InitThreads
    /\ secrets = EmptyMap
    /\ fs = [p \in Paths |-> Missing]
    /\ origin = [p \in Paths |-> NoOrigin]
    /\ env = <<>>
    /\ \/ \E text \in CsvTexts : cx = CsvStart(CsvFile(text), <<>>)
       \/ \E given \in SeqsUpTo(CsvLocations, MaxLocations) : cx = CsvStart(NoFile, given)

\* UpdateFile(filePath, cx.given): os.Create may refuse; the file is
\* truncated and written.
UpdateFile ==
    /\ cx.stage = "new"
    /\ \/ cx' = [cx EXCEPT !.stage = "refused"]
       \/ cx' = [cx EXCEPT !.stage = "updated", !.written = TRUE,
                           !.file = CsvFile(UpdatedLines(cx.given))]
    /\ UNCHANGED <<secrets, writer, readers, pc, op, loc, ret, snap, fs, origin,
                   env, panicked, ncalls>>

\* ParseFile(filePath) up to the loop of Parse.
ParseFile ==
    /\ cx.stage \in {"new", "updated"}
    /\ cx' = IF ~cx.file.exists
             THEN [cx EXCEPT !.stage = "parsed",
                             !.errors = <<ParseErrorOf(0, 0, "failed to open file")>>]
             ELSE ParseHeader(cx, cx.file.lines)
    /\ UNCHANGED <<secrets, writer, readers, pc, op, loc, ret, snap, fs, origin,
                   env, panicked, ncalls>>

\* The loop of Parse, turn by turn, and its return.
ParseLoop ==
    /\ cx.stage = "rows"
    /\ cx' = ParseRow(cx)
    /\ UNCHANGED <<secrets, writer, readers, pc, op, loc, ret, snap, fs, origin,
                   env, panicked, ncalls>>

NextCsv == UpdateFile \/ ParseFile \/ ParseLoop

SpecCsv == InitCsv /\ [][NextCsv]_vars

\* What Parse has returned.
ParseResult == ParseResultOf(cx.locations, cx.errors)

\* The records the reader finds in the lines, up to the end of the text.
RECURSIVE Records(_, _)
Records(lines, fieldsPerRecord) ==
    LET r == Read(lines, fieldsPerRecord)
    IN  IF r.err = "EOF" THEN <<>>
        ELSE <<r>> \o Records(r.more, fieldsPerRecord)

\* The record is a data row that parses cleanly.
Clean(r) ==
    /\ r.err = ""
    /\ Len(r.fields) >= 3
    /\ parseFloat(r.fields[2]).err = ""
    /\ parseFloat(r.fields[3]).err = ""

LocationRead(r) ==
    LocationOf(parseNameAndCity(r.fields[1]).name, parseNameAndCity(r.fields[1]).city,
               parseFloat(r.fields[2]).result, parseFloat(r.fields[3]).result)

RECURSIVE CleanLocations(_)
CleanLocations(rows) ==
    IF rows = <<>> THEN <<>>
    ELSE (IF Clean(rows[1]) THEN <<LocationRead(rows[1])>> ELSE <<>>)
         \o CleanLocations(Tail(rows))

\* The header of the parsed text and the data rows after it.
HeaderRead == Read(cx.file.lines, 0)
HeaderOK == HeaderRead.err = "" /\ Len(HeaderRead.fields) >= 3
DataRows == Records(HeaderRead.more, HeaderRead.fieldsPerRecord)

\* C24: for a text with a header of at least 3 columns Parse returns the
\* locations of the rows that parse cleanly, in the order of the text; every
\* failing row has an error that carries its number (the header is row 0,
\* every data row counts one) and no location; Success is true exactly when
\* there is no error.  A missing header or one of fewer than 3 columns gives
\* Success=false, one error and no location.
C24_ParseCollectsErrors ==
    (cx.stage = "parsed" /\ cx.file.exists) =>
        IF HeaderOK
        THEN /\ ParseResult.Locations = CleanLocations(DataRows)
             /\ \A i \in 1..Len(DataRows) :
                   ~Clean(DataRows[i]) =>
                       \E j \in 1..Len(ParseResult.Errors) : ParseResult.Errors[j].Row = i
             /\ \A j \in 1..Len(ParseResult.Errors) :
                   /\ ParseResult.Errors[j].Row \in 1..Len(DataRows)
                   /\ ~Clean(DataRows[ParseResult.Errors[j].Row])
             /\ ParseResult.Success <=> ParseResult.Errors = <<>>
        ELSE /\ ~ParseResult.Success
             /\ Len(ParseResult.Errors) = 1
             /\ ParseResult.Locations = <<>>

\* Parse has returned a location for a clean row that comes after a row the
\* reader could not read and a row with an invalid number, each of the two
\* with an error of its own number.
C24_Witness ==
    /\ cx.stage = "parsed" /\ cx.file.exists /\ HeaderOK
    /\ Len(DataRows) = 3
    /\ DataRows[1].err # ""
    /\ DataRows[2].err = "" /\ ~Clean(DataRows[2])
    /\ Clean(DataRows[3])
    /\ Len(ParseResult.Locations) = 1
    /\ \E j \in 1..Len(ParseResult.Errors) : ParseResult.Errors[j].Row = 1
    /\ \E j \in 1..Len(ParseResult.Errors) : ParseResult.Errors[j].Row = 2
    /\ ~ParseResult.Success

\* C25: UpdateFile(path, locs) followed by ParseFile(path) returns
\* Success=true, no errors, and as many locations as were written, in the
\* same order and each with the Name and the City that were written.
C25_CsvRoundTrip ==
    (cx.stage = "parsed" /\ cx.written) =>
        /\ ParseResult.Success
        /\ ParseResult.Errors = <<>>
        /\ Len(ParseResult.Locations) = Len(cx.given)
        /\ \A i \in 1..Len(cx.given) :
              /\ ParseResult.Locations[i].Name = cx.given[i].Name
              /\ ParseResult.Locations[i].City = cx.given[i].City

\* The name and the city of the location have no space at either end, and
\* the name has no opening parenthesis.
PlainNames(location) ==
    /\ location.Name = TrimSpace(location.Name)
    /\ location.City = TrimSpace(location.City)
    /\ \A i \in 1..Len(location.Name) : location.Name[i] # "("

\* The round trip gives back the locations whose names are plain.
C25_CsvRoundTripOfPlainNames ==
    (cx.stage = "parsed" /\ cx.written
        /\ \A i \in 1..Len(cx.given) : PlainNames(cx.given[i])) =>
        /\ ParseResult.Success
        /\ ParseResult.Errors = <<>>
        /\ Len(ParseResult.Locations) = Len(cx.given)
        /\ \A i \in 1..Len(cx.given) :
              /\ ParseResult.Locations[i].Name = cx.given[i].Name
              /\ ParseResult.Locations[i].City = cx.given[i].City

----------------------------------------------------------------------------
(* SpecEnv: LoadFromEnv(prefix) on an empty store, for every prefix and    *)
(* every environment of up to two variables over a small alphabet.         *)

MaxNameLen == 2

\* All strings over the characters in S of the lengths in lens.
StringsOver(S, lens) == UNION {[1..n -> S] : n \in lens}

EnvNames == StringsOver({"A", "B"}, 1..MaxNameLen)
EnvValues == {<<>>, <<"1">>, <<"A">>, <<"=">>, <<"A", "=", "1">>}
EnvPrefixes == StringsOver({"A", "B", "="}, 0..MaxNameLen)

\* NAME=value, as os.Environ() gives it
EnvVar(name, value) == name \o <<"=">> \o value

Environments ==
    {<<>>}
    \cup {<<EnvVar(n, v)>> : n \in EnvNames, v \in EnvValues}
    \cup UNION {{<<EnvVar(n1, v1), EnvVar(n2, <<"1">>)>> :
                     v1 \in EnvValues, n2 \in EnvNames \ {n1}} : n1 \in EnvNames}

InitEnv ==
    /\ InitLocals
    /\ pc = [t \in Threads |-> "idle"]
    /\ op = [t \in Threads |-> NoOp]
    /\ ncalls = MaxCalls - 1
    /\ secrets = EmptyMap
    /\ fs = [p \in Paths |-> Missing]
    /\ origin = [p \in Paths |-> NoOrigin]
    /\ env \in Environments
    /\ cx = CxIdle

NextEnv ==
    \/ \E prefix \in EnvPrefixes : Call(1, OpCall("LoadFromEnv", prefix, <<>>, "", NoBytes))
    \/ Lock(1) \/ Environ(1) \/ MapLoad(1) \/ MapStore(1) \/ Unlock(1)

SpecEnv == InitEnv /\ [][NextEnv]_vars

\* The variables of the environment whose name starts with prefix.
Matching(environ, prefix) ==
    {i \in 1..Len(environ) : HasPrefix(BeforeEq(environ[i]), prefix)}

\* One entry per variable whose name starts with prefix: the name without
\* the prefix, and the variable's value.
ExpectedFromEnv(environ, prefix) ==
    LET name(i) == SubStr(BeforeEq(environ[i]), Len(prefix) + 1, Len(BeforeEq(environ[i])))
        keys == {name(i) : i \in Matching(environ, prefix)}
    IN  [k \in keys |->
            AfterEq(environ[CHOOSE i \in Matching(environ, prefix) : name(i) = k])]

\* C15: LoadFromEnv(prefix) on an empty store succeeds and leaves one entry
\* per variable whose name starts with prefix, under the name without the
\* prefix and with the variable's value, and no other entry.
C15_LoadFromEnvByName ==
    \A t \in Threads :
        (Returned(t, "LoadFromEnv") /\ snap[t] = EmptyMap)
            => (ret[t] = RetOk /\ secrets = ExpectedFromEnv(env, op[t].key))

\* C15, for the prefixes it holds for: the same for every prefix without "=".
C15_LoadFromEnvByNameWithoutEq ==
    \A t \in Threads :
        (/\ Returned(t, "LoadFromEnv") /\ snap[t] = EmptyMap
         /\ \A i \in 1..Len(op[t].key) : op[t].key[i] # "=")
            => (ret[t] = RetOk /\ secrets = ExpectedFromEnv(env, op[t].key))

----------------------------------------------------------------------------
(* SpecEnvVar: LoadFromEnvVar(key) on an empty store and on stores with    *)
(* entries, for every key and every environment of SpecEnv.                *)

EnvVarStores ==
    { EmptyMap,
      MapAssign(EmptyMap, <<"A">>, <<"9">>),
      MapAssign(MapAssign(EmptyMap, <<"A">>, <<"9">>), <<"B">>, <<"9">>) }

InitEnvVar ==
    /\ InitLocals
    /\ pc = [t \in Threads |-> "idle"]
    /\ op = [t \in Threads |-> NoOp]
    /\ ncalls = MaxCalls - 1
    /\ secrets \in EnvVarStores
    /\ fs = [p \in Paths |-> Missing]
    /\ origin = [p \in Paths |-> NoOrigin]
    /\ env \in Environments
    /\ cx = CxIdle

NextEnvVar ==
    \/ \E key \in EnvPrefixes : Call(1, OpCall("LoadFromEnvVar", key, <<>>, "", NoBytes))
    \/ Lock(1) \/ LookupEnv(1) \/ MapLoad(1) \/ MapStore(1) \/ Unlock(1)

SpecEnvVar == InitEnvVar /\ [][NextEnvVar]_vars

\* The values the environment gives to the variable named key.
DefinedAs(environ, key) ==
    {v \in EnvValues : \E i \in 1..Len(environ) : environ[i] = EnvVar(key, v)}

\* C26: LoadFromEnvVar(key) returns true exactly when the environment
\* defines a variable named key, with an empty value too; the store then
\* maps key to the variable's value and is otherwise as it was when the call
\* took the lock.  When the variable is not defined it returns false and
\* the store is as it was.
C26_LoadFromEnvVar ==
    \A t \in Threads :
        Returned(t, "LoadFromEnvVar") =>
            LET key == op[t].key
                name == key # <<>> /\ \A i \in 1..Len(key) : key[i] # "="
                vs == IF name THEN DefinedAs(env, key) ELSE {}
            IN  IF vs # {}
                THEN /\ ret[t] = RetFound(TRUE)
                     /\ key \in DOMAIN secrets /\ secrets[key] \in vs
                     /\ DOMAIN secrets = (DOMAIN snap[t]) \cup {key}
                     /\ \A k \in (DOMAIN snap[t]) \ {key} : secrets[k] = snap[t][k]
                ELSE /\ ret[t] = RetFound(FALSE)
                     /\ secrets = snap[t]

\* LoadFromEnvVar has returned true for a variable with an empty value, on a
\* store that had another value under the name and a second entry.
C26_Witness ==
    \E t \in Threads :
        /\ Returned(t, "LoadFromEnvVar")
        /\ ret[t] = RetFound(TRUE)
        /\ op[t].key = <<"A">>
        /\ snap[t] = MapAssign(MapAssign(EmptyMap, <<"A">>, <<"9">>), <<"B">>, <<"9">>)
        /\ secrets = MapAssign(snap[t], <<"A">>, <<>>)

----------------------------------------------------------------------------
(* SpecDotenv: one LoadFromDotEnvFile on a file of one line, for every     *)
(* line up to MaxLineLen characters of spaces, '#', '=', a letter and the  *)
(* two quotes, and on files of two lines.                                  *)

MaxLineLen == 5

DotenvChars == {" ", "#", "=", "a", "q", "sq"}
DotenvLines == StringsOver(DotenvChars, 0..MaxLineLen)

\* a=a, a=, #a, the empty line, a, and " a ==" with its second '='
DotenvPairLines ==
    { <<"a", "=", "a">>, <<"a", "=">>, <<"#", "a">>, <<>>, <<"a">>,
      <<" ", "a", " ", "=", "=">> }

DotenvFiles ==
    {TextFile(<<Line(l)>>) : l \in DotenvLines}
    \cup {TextFile(<<Line(l1), Line(l2)>>) : l1 \in DotenvPairLines, l2 \in DotenvPairLines}

InitDotenv ==
    /\ InitLocals
    /\ pc = [t \in Threads |-> "idle"]
    /\ op = [t \in Threads |-> NoOp]
    /\ ncalls = MaxCalls - 1
    /\ secrets \in {EmptyMap, MapAssign(EmptyMap, <<"a">>, <<"#">>)}
    /\ \E f \in DotenvFiles : fs = [p \in Paths |-> IF p = EnvPath THEN f ELSE Missing]
    /\ origin = [p \in Paths |-> NoOrigin]
    /\ env = <<>>
    /\ cx = CxIdle

NextDotenv ==
    \/ Call(1, OpCall("LoadFromDotEnvFile", <<>>, <<>>, EnvPath, NoBytes))
    \/ Lock(1) \/ Stat(1) \/ OpenEnv(1) \/ Scan(1) \/ MapLoad(1) \/ MapStore(1)
    \/ Unlock(1)

SpecDotenv == InitDotenv /\ [][NextDotenv]_vars

\* What the sentences about .env lines say, without the code's functions.
Blank(l) == \A i \in 1..Len(l) : l[i] = " "
Comment(l) == \E i \in 1..Len(l) : l[i] = "#" /\ \A j \in 1..(i - 1) : l[j] = " "
HasEq(l) == \E i \in 1..Len(l) : l[i] = "="
FirstEq(l) == CHOOSE i \in 1..Len(l) : l[i] = "=" /\ \A j \in 1..(i - 1) : l[j] # "="

\* s without the spaces around it
Strip(s) ==
    IF Blank(s) THEN <<>>
    ELSE LET first == CHOOSE i \in 1..Len(s) : s[i] # " " /\ \A j \in 1..(i - 1) : s[j] = " "
             last == CHOOSE i \in 1..Len(s) : s[i] # " " /\ \A j \in (i + 1)..Len(s) : s[j] = " "
         IN  [i \in 1..(last - first + 1) |-> s[first + i - 1]]

Kept(l) == ~Blank(l) /\ ~Comment(l) /\ HasEq(l)
NameOf(l) == Strip([i \in 1..(FirstEq(l) - 1) |-> l[i]])
RawValueOf(l) == Strip([i \in 1..(Len(l) - FirstEq(l)) |-> l[FirstEq(l) + i]])

\* The entries of a file: for every name of a kept line, the value the code
\* derives from the text after the first '=' of the last kept line of that name.
ExpectedFromLines(lines) ==
    LET kept == {i \in 1..Len(lines) : Kept(lines[i].text)}
        names == {NameOf(lines[i].text) : i \in kept}
        lastOf(k) == CHOOSE i \in kept :
                        /\ NameOf(lines[i].text) = k
                        /\ \A j \in kept : NameOf(lines[j].text) = k => j <= i
    IN  [k \in names |-> Unquote(RawValueOf(lines[lastOf(k)].text))]

\* C17: a successful LoadFromDotEnvFile merges one entry per line that is not
\* blank, not a comment and has a '=': its name is the trimmed text before
\* the first '=', its value comes from all the text after that '='; other
\* lines change nothing, and of two lines with one name the later wins.
C17_DotenvLines ==
    \A t \in Threads :
        (Returned(t, "LoadFromDotEnvFile") /\ ret[t] = RetOk)
            => secrets = Override(snap[t], ExpectedFromLines(fs[op[t].path].lines))

\* A file of two lines of one name, the later with two '=', was loaded into a
\* store that held that name.
C17_Witness ==
    \E t \in Threads :
        /\ Returned(t, "LoadFromDotEnvFile") /\ ret[t] = RetOk
        /\ fs[op[t].path].lines = <<Line(<<"a", "=", "a">>), Line(<<" ", "a", " ", "=", "=">>)>>
        /\ snap[t] # EmptyMap
        /\ secrets = MapAssign(EmptyMap, <<"a">>, <<"=">>)

QuoteChars == {"q", "sq"}

\* v starts and ends with the same quote character.
SameQuoteAtBothEnds(v) == v # <<>> /\ v[1] \in QuoteChars /\ v[Len(v)] = v[1]

\* v without its first and its last character
Inner(v) == [i \in 1..(Len(v) - 2) |-> v[i + 1]]

\* The file of thread t's call is one line that gives an entry.
OneKeptLine(t) ==
    /\ Returned(t, "LoadFromDotEnvFile") /\ ret[t] = RetOk
    /\ Len(fs[op[t].path].lines) = 1
    /\ Kept(fs[op[t].path].lines[1].text)

\* C18 (as stated): the value stored is the trimmed text after the first '=',
\* without its first and last character if and only if it starts and ends
\* with the same quote character.
C18_QuotesBySameEnds ==
    \A t \in Threads :
        OneKeptLine(t) =>
            LET l == fs[op[t].path].lines[1].text
                v == RawValueOf(l)
            IN  secrets[NameOf(l)] = IF SameQuoteAtBothEnds(v) THEN Inner(v) ELSE v

\* C18 (amended): the value stored is the trimmed text after the first '=',
\* without its first and last character if and only if it has at least two
\* characters and starts and ends with the same quote character; a value
\* that is one quote character is stored as it is.
C18_QuotesOfTwoCharacters ==
    \A t \in Threads :
        OneKeptLine(t) =>
            LET l == fs[op[t].path].lines[1].text
                v == RawValueOf(l)
            IN  secrets[NameOf(l)] =
                    IF Len(v) >= 2 /\ SameQuoteAtBothEnds(v) THEN Inner(v) ELSE v

\* The line a=" was loaded and a holds the quote character.
C18_Witness ==
    \E t \in Threads :
        /\ OneKeptLine(t)
        /\ fs[op[t].path].lines[1].text = <<"a", "=", "q">>
        /\ secrets[<<"a">>] = <<"q">>

----------------------------------------------------------------------------
(* SpecCrypto: encrypt and decrypt as functions.  A plaintext is sealed    *)
(* under one key and nonce, the ciphertext may be altered on its way, and  *)
(* it is opened under any key and nonce.                                   *)

CryptoTexts == {JNull, Marshal(EmptyMap), DocGood}
CryptoKeys == FileKeys
CryptoNonces == {Nonce1, Nonce2, ShortNonce}

CxState(stage, pt, key, nonce, ct, key2, nonce2, out) ==
    [pt |-> pt, key |-> key, nonce |-> nonce, stage |-> stage, ct |-> ct,
     key2 |-> key2, nonce2 |-> nonce2, out |-> out]

InitCrypto ==
    /\ InitThreads
    /\ secrets = EmptyMap
    /\ fs = [p \in Paths |-> Missing]
    /\ origin = [p \in Paths |-> NoOrigin]
    /\ env = <<>>
    /\ \E p \in CryptoTexts : \E k \in CryptoKeys : \E n \in CryptoNonces :
          cx = CxState("start", p, k, n, JunkCipher, NoBytes, NoBytes, Err(""))

\* encrypt(pt, key, nonce)
CxEncrypt ==
    /\ cx.stage = "start"
    /\ LET r == encrypt(cx.pt, cx.key, cx.nonce)
       IN  cx' = [cx EXCEPT !.stage = IF r.kind = "ok" THEN "sealed" ELSE "refused",
                            !.ct = r.val, !.out = r]
    /\ UNCHANGED <<secrets, writer, readers, pc, op, loc, ret, snap, fs, origin,
                   env, panicked, ncalls>>

\* a byte of the ciphertext is altered between encrypt and decrypt
CxTamper ==
    /\ cx.stage = "sealed"
    /\ ~cx.ct.tamper
    /\ cx' = [cx EXCEPT !.ct = Tamper(cx.ct)]
    /\ UNCHANGED <<secrets, writer, readers, pc, op, loc, ret, snap, fs, origin,
                   env, panicked, ncalls>>

\* decrypt(ct, key2, nonce2)
CxDecrypt ==
    /\ cx.stage = "sealed"
    /\ \E k \in CryptoKeys : \E n \in CryptoNonces :
          cx' = [cx EXCEPT !.stage = "opened", !.key2 = k, !.nonce2 = n,
                           !.out = decrypt(cx.ct, k, n)]
    /\ UNCHANGED <<secrets, writer, readers, pc, op, loc, ret, snap, fs, origin,
                   env, panicked, ncalls>>

NextCrypto == CxEncrypt \/ CxTamper \/ CxDecrypt

SpecCrypto == InitCrypto /\ [][NextCrypto]_vars

\* decrypt was given the ciphertext as encrypt made it, and encrypt's key
\* and nonce.
CxSameInputs == ~cx.ct.tamper /\ cx.key2 = cx.key /\ cx.nonce2 = cx.nonce

====
